---- MODULE Spec2Model ----
(***************************************************************************)
(* A model of generar_datos_final.py, the SITS batch pipeline: the         *)
(* indicator engine, the economic integrator, the topography analyzer,     *)
(* the restriction engine, the census/polygon merge of procesar_geo, the   *)
(* script that runs both zone kinds, and color_dictamen of app.py.         *)
(*                                                                         *)
(* Numbers.  Census cells are text read with dtype=str; a cell is a record *)
(* [ok, v]: the text parses to the number v, or it does not parse.  Index  *)
(* values are exact rationals <<n, d>> with d > 0 in lowest terms (the     *)
(* source computes them in binary floating point).                         *)
(*                                                                         *)
(* Geometry.  Coordinates are integers in units of 0.0001 degree on one    *)
(* axis: a zone polygon and a river line are closed intervals [lo, hi], an *)
(* economic point is a coordinate x, a buffer of radius r widens an        *)
(* interval by r on both sides.                                            *)
(***************************************************************************)
EXTENDS Integers, Sequences, FiniteSets, TLC

VARIABLES
    pc,      \* position of the step under analysis: "start", "done", "none", "error"
    df,      \* census table: sequence of rows (column name -> cell / value)
    shp,     \* polygon layer: sequence of [CVEGEO, lo, hi]
    final,   \* the zone dataset carried through the stages
    denue,   \* economic point layer
    rios,    \* river line layer
    dem,     \* elevation raster
    entrada, \* the arguments of procesar_geo: kind, filter, factor, paths
    gen,     \* state of numpy's global random generator: seed and position
    corridas, \* the results of the successive runs of a step
    fuentes, \* the script's required sources, by zone kind
    archivos, \* the output files on disk, by zone kind
    retorno, \* what procesar_geo returned to the script, by zone kind
    salida,  \* the exit status of the script, once it has ended
    colores  \* the fill colour the dashboard gives each zone of its map

vars == <<pc, df, shp, final, denue, rios, dem, entrada, gen, corridas,
          fuentes, archivos, retorno, salida, colores>>

\* ---------------------------------------------------------------- bounds
\* Largest ordinary census count drawn for a cell.
MaxCount == 2
\* The "very large" census count.
VeryLarge == 1000

\* Most economic points in a layer, most river lines in a layer.
MaxPuntos == 2
MaxRios == 1
\* Longest activity code drawn for the classifier.
MaxCodeLen == 3
\* Most zones in a zone table drawn for the topography analyzer.
MaxZonas == 3

\* ------------------------------------------------------------ arithmetic
RECURSIVE Gcd(_, _)
Gcd(a, b) == IF b = 0 THEN a ELSE Gcd(b, a % b)

Abs(x) == IF x < 0 THEN -x ELSE x

\* The rational n/d (d # 0) with positive denominator, in lowest terms.
Frac(n, d) ==
    LET s == IF d < 0 THEN -1 ELSE 1
        k == Gcd(Abs(n), Abs(d))
    IN  <<(s * n) \div k, (s * d) \div k>>

RAdd(p, q) ==
    LET k == Gcd(p[2], q[2])
    IN  Frac(p[1] * (q[2] \div k) + q[1] * (p[2] \div k), (p[2] \div k) * q[2])
RDivInt(p, k) == Frac(p[1], p[2] * k)
RLe(p, q) ==
    LET k == Gcd(p[2], q[2])
    IN  p[1] * (q[2] \div k) <= q[1] * (p[2] \div k)
REq(p, q) == Frac(p[1], p[2]) = Frac(q[1], q[2])
RZero == <<0, 1>>
ROne == <<1, 1>>

\* pandas Series.clip(0, 1) on one value.
ClipNoLower(p) == IF RLe(ROne, p) THEN ROne ELSE p
Clip01(p) == IF RLe(p, RZero) THEN RZero ELSE IF RLe(ROne, p) THEN ROne ELSE p

\* --------------------------------------------------------- census cells
Num(v) == [ok |-> TRUE, v |-> v]
NonNumeric == [ok |-> FALSE, v |-> 0]

\* pd.to_numeric(errors='coerce').fillna(0) on one cell.
ToNumeric(c) == IF c.ok THEN c.v ELSE 0

\* VARS of procesar_indicadores, in source order.
VARS ==
    << "POBTOT", "POBFEM", "POBMAS", "P_15YMAS", "P15YM_AN", "P15YM_SE",
       "PDER_SS", "TVIVPARHAB", "POB0_14", "P_60YMAS", "P3YM_HLI", "POB_AFRO",
       "PCON_DISC", "HOGJEF_F",
       "VPH_PISOTI", "VPH_NODREN", "VPH_AGUAFV", "VPH_S_ELEC",
       "VPH_REFRI", "VPH_LAVAD", "VPH_AUTOM", "VPH_PC", "VPH_1CUARTO",
       "VPH_TECHOLAM", "VPH_TECHOPAL", "VPH_TECHOPEC",
       "VPH_PAREDLAM", "VPH_PAREDDES", "VPH_PAREDBAJ",
       "VPH_LENA", "VPH_CARBON", "VPH_CIST", "VPH_TINACO",
       "PEA", "PDESOCUP", "PE_INAC",
       "VPH_INTER", "VPH_CEL" >>

VarSet == {VARS[i] : i \in 1..Len(VARS)}

\* The columns whose zeros are replaced by 1 before dividing.
DENOMS == {"POBTOT", "TVIVPARHAB", "P_15YMAS", "PEA"}

cols_inds == <<"CAR_EDU_20", "CAR_SALUD_20", "CAR_VIV_20", "CAR_SERV_20", "CAR_POBREZA_20">>

extras == <<"IND_RESILIENCIA_HIDRICA", "IND_PRESION_AMBIENTAL", "IND_RIESGO_SOCIAL",
            "SENDAI_P1_VULNERABILIDAD", "SENDAI_P3_FRAGILIDAD", "SENDAI_P4_FALTACAPACIDAD">>

IndexCols == {cols_inds[i] : i \in 1..5} \cup {extras[i] : i \in 1..6} \cup {"SITS_INDEX"}

\* Steps 1 and 2 on one row: the present VARS columns become numbers, then
\* a 0 in a present denominator column becomes 1.  Other columns are kept.
Coerce(row) ==
    [c \in DOMAIN row |->
        IF c \in VarSet
        THEN LET v == ToNumeric(row[c])
             IN  IF c \in DENOMS /\ v = 0 THEN 1 ELSE v
        ELSE row[c]]

\* g(c): the column, or 0 when the table lacks it.
g(row, c) == IF c \in DOMAIN row THEN row[c] ELSE 0

\* df[cols_inds].mean(axis=1) over the five clipped sub-indices.
MeanFirstFour(r) ==
    RDivInt(RAdd(RAdd(r["CAR_EDU_20"], r["CAR_SALUD_20"]),
                 RAdd(r["CAR_VIV_20"], r["CAR_SERV_20"])), 4)
SitsMean(r) ==
    RDivInt(RAdd(RAdd(RAdd(r["CAR_EDU_20"], r["CAR_SALUD_20"]),
                      RAdd(r["CAR_VIV_20"], r["CAR_SERV_20"])),
                 r["CAR_POBREZA_20"]), 5)

\* The clip applied to every index column (lines 198 and 237).
ClipIndex(p) == Clip01(p)

\* The columns the formulas index directly (df['X']): a table lacking one
\* of them raises KeyError.
RequiredCols == {"P_15YMAS", "POBTOT", "TVIVPARHAB"}

\* The insured share itself.
CarSaludSinComplemento(pob, ins) == Frac(ins, pob)
\* 1 - (g('PDER_SS') / df['POBTOT']), before the clip.
CarSalud(pob, ins) == Frac(pob - ins, pob)

\* The index columns of one coerced row r, all columns present that the
\* formulas index directly.
IndicadoresRow(r) ==
    LET tviv == r["TVIVPARHAB"]
        pob  == r["POBTOT"]
        p15  == r["P_15YMAS"]
        edu  == ClipIndex(Frac(g(r, "P15YM_AN") + g(r, "P15YM_SE"), p15))
        sal  == ClipIndex(CarSalud(pob, g(r, "PDER_SS")))
        \* viv_mala, times 10 (the 1.2 weight of VPH_1CUARTO is 12/10)
        viv10 == 10 * (g(r, "VPH_PISOTI") + g(r, "VPH_TECHOLAM") + g(r, "VPH_TECHOPAL")
                       + g(r, "VPH_PAREDLAM") + g(r, "VPH_PAREDDES"))
                 + 12 * g(r, "VPH_1CUARTO")
        viv  == ClipIndex(Frac(viv10, 10 * tviv))
        serv_malos == g(r, "VPH_AGUAFV") + g(r, "VPH_NODREN") + g(r, "VPH_S_ELEC")
                      + g(r, "VPH_LENA")
        srv  == ClipIndex(Frac(serv_malos, 4 * tviv))
        activos == g(r, "VPH_REFRI") + g(r, "VPH_LAVAD") + g(r, "VPH_AUTOM") + g(r, "VPH_PC")
        pbr  == ClipIndex(Frac(4 * tviv - activos, 4 * tviv))
        subs == [c \in {cols_inds[i] : i \in 1..5} |->
                    CASE c = "CAR_EDU_20" -> edu
                      [] c = "CAR_SALUD_20" -> sal
                      [] c = "CAR_VIV_20" -> viv
                      [] c = "CAR_SERV_20" -> srv
                      [] OTHER -> pbr]
        cap_agua == g(r, "VPH_AGUAFV") + g(r, "VPH_CIST") + g(r, "VPH_TINACO")
        contaminacion == g(r, "VPH_LENA") + g(r, "VPH_CARBON") + g(r, "VPH_NODREN")
        denom_eco == IF "PEA" \in DOMAIN r THEN r["PEA"] ELSE p15
        tasa_desempleo == Frac(g(r, "PDESOCUP"), denom_eco)
        \* vuln_sendai, times 2 (the 0.5 weight of POB0_14)
        vuln2 == 2 * (g(r, "PCON_DISC") + g(r, "P3YM_HLI") + g(r, "P_60YMAS")) + g(r, "POB0_14")
        frag_sendai == g(r, "VPH_PAREDDES") + g(r, "VPH_TECHOPAL") + g(r, "VPH_TECHOPEC")
                       + g(r, "VPH_NODREN")
        cap_resp == g(r, "VPH_CEL") + g(r, "VPH_INTER") + g(r, "VPH_AUTOM") + g(r, "VPH_CIST")
                    + g(r, "VPH_TINACO")
    IN  [c \in IndexCols |->
            CASE c \in DOMAIN subs -> subs[c]
              [] c = "SITS_INDEX" -> SitsMean(subs)
              [] c = "IND_RESILIENCIA_HIDRICA" -> ClipIndex(Frac(cap_agua, 2 * tviv))
              [] c = "IND_PRESION_AMBIENTAL" -> ClipIndex(Frac(contaminacion, tviv))
              [] c = "IND_RIESGO_SOCIAL" ->
                    ClipIndex(RDivInt(RAdd(RAdd(tasa_desempleo, viv), edu), 3))
              [] c = "SENDAI_P1_VULNERABILIDAD" -> ClipIndex(Frac(vuln2, 2 * pob))
              [] c = "SENDAI_P3_FRAGILIDAD" -> ClipIndex(Frac(frag_sendai, tviv))
              [] OTHER -> ClipIndex(Frac(5 * tviv - cap_resp, 5 * tviv))]

\* Function override: f with the entries of h added or replaced.
Override(f, h) ==
    [c \in DOMAIN f \cup DOMAIN h |-> IF c \in DOMAIN h THEN h[c] ELSE f[c]]

\* Whether procesar_indicadores raises KeyError on table t: some row lacks
\* a column the formulas index directly.
indicadores_raises(t) == \E i \in 1..Len(t) : ~(RequiredCols \subseteq DOMAIN t[i])

\* procesar_indicadores on a table it does not raise on: the table with
\* numeric VARS columns and the index columns added.
procesar_indicadores(t) ==
    [i \in 1..Len(t) |-> LET r == Coerce(t[i]) IN Override(r, IndicadoresRow(r))]

\* ------------------------------------------------- the indicator engine
\* Cells drawn for a census table.
CensusCells == {Num(v) : v \in (-1..MaxCount) \cup {VeryLarge}} \cup {NonNumeric}

\* Column sets a census table may lack.
MissingPatterns ==
    { {}, {"PEA"}, {"P_15YMAS"}, {"POBTOT"}, {"TVIVPARHAB"}, {"PDER_SS"},
      VarSet \ (DENOMS \cup {"PDESOCUP"}) }

OddVars == {VARS[i] : i \in {j \in 1..Len(VARS) : j % 2 = 1}}

\* A census row: the four denominators given one by one, the other
\* variables alternately a and b in VARS order, the columns of missing
\* absent.
CensusRow(pob, viv, p15, pea, a, b, missing) ==
    [c \in VarSet \ missing |->
        CASE c = "POBTOT" -> pob
          [] c = "TVIVPARHAB" -> viv
          [] c = "P_15YMAS" -> p15
          [] c = "PEA" -> pea
          [] OTHER -> IF c \in OddVars THEN a ELSE b]

\* The rows drawn: every column present with the denominators and the
\* first numerator group ranging over all cells, and rows lacking columns
\* with fewer cell values.
CensusRows ==
    {CensusRow(pob, viv, p15, pea, a, b, {}) :
        pob \in CensusCells, viv \in CensusCells, p15 \in CensusCells,
        pea \in {Num(0), Num(MaxCount)},
        a \in CensusCells, b \in {Num(0), Num(VeryLarge)}}
    \cup
    {CensusRow(pob, viv, p15, pea, a, Num(0), missing) :
        pob \in {Num(0), Num(MaxCount)}, viv \in {Num(0), Num(MaxCount)},
        p15 \in {Num(0), Num(MaxCount)}, pea \in {Num(0), Num(MaxCount)},
        a \in {Num(1), NonNumeric}, missing \in MissingPatterns \ {{}}}

InitInd ==
    /\ pc = "start"
    /\ \E row \in CensusRows : df = <<row>>
    /\ shp = <<>>
    /\ final = <<>>
    /\ denue = "unused"
    /\ rios = "unused"
    /\ dem = "unused"
    /\ entrada = "unused"
    /\ gen = "unused"
    /\ corridas = <<>>
    /\ fuentes = "unused"
    /\ archivos = "unused"
    /\ retorno = "unused"
    /\ salida = <<>>
    /\ colores = <<>>

\* df = procesar_indicadores(df), or the KeyError it raises.
Indicadores ==
    /\ pc = "start"
    /\ IF indicadores_raises(df)
       THEN pc' = "error" /\ df' = df
       ELSE pc' = "done" /\ df' = procesar_indicadores(df)
    /\ UNCHANGED <<shp, final, denue, rios, dem, entrada, gen, corridas, fuentes, archivos, retorno, salida, colores>>

NextInd == Indicadores

SpecInd == InitInd /\ [][NextInd]_vars

\* ------------------------------------------------ the economic integrator
Min(a, b) == IF a < b THEN a ELSE b

\* str(row.get('codigo_act', row.iloc[0]))[0:2]
Cod(row) ==
    LET act == IF "codigo_act" \in DOMAIN row THEN row["codigo_act"] ELSE row["first"]
    IN  SubSeq(act, 1, Min(2, Len(act)))

clasificar_scian_46_only(row) ==
    LET cod == Cod(row) IN
    IF cod \in {<<7, 2>>} THEN "ECO_TURISMO"
    ELSE IF cod \in {<<4, 6>>} THEN "ECO_COMERCIO"
    ELSE IF cod \in {<<3, 1>>, <<3, 2>>, <<3, 3>>} THEN "ECO_INDUSTRIA"
    ELSE IF cod \in {<<8, 1>>, <<5, 4>>, <<6, 1>>, <<6, 2>>} THEN "ECO_SERVICIOS"
    ELSE "ECO_OTROS"
clasificar_scian(row) ==
    LET cod == Cod(row) IN
    IF cod \in {<<7, 2>>} THEN "ECO_TURISMO"
    ELSE IF cod \in {<<4, 6>>, <<4, 3>>} THEN "ECO_COMERCIO"
    ELSE IF cod \in {<<3, 1>>, <<3, 2>>, <<3, 3>>} THEN "ECO_INDUSTRIA"
    ELSE IF cod \in {<<8, 1>>, <<5, 4>>, <<6, 1>>, <<6, 2>>} THEN "ECO_SERVICIOS"
    ELSE "ECO_OTROS"

\* gdf_denue['SECTOR_SCIAN'] = gdf_denue.apply(clasificar_scian, axis=1)
ConSector(points) ==
    [k \in 1..Len(points) |-> Override(points[k], [SECTOR_SCIAN |-> clasificar_scian(points[k])])]

\* ------------------------------------------------------------- geometry
\* shapely intersects on closed intervals: they share at least one point.
Intersects(a, b) == a[1] <= b[2] /\ b[1] <= a[2]

\* shapely within for a point and a polygon: the point lies in the interior.
Within(x, poly) == poly[1] < x /\ x < poly[2]

\* geometry.buffer(r)
Buffer(geom, r) == <<geom[1] - r, geom[2] + r>>

PointGeom(x) == <<x, x>>

\* The rows of gdf whose geometry intersects some geometry of bufs: the
\* index of sjoin(gdf, bufs, how='inner', predicate='intersects').
SjoinIntersects(gdf, bufs) ==
    {i \in 1..Len(gdf) : \E k \in 1..Len(bufs) : Intersects(gdf[i]["geometry"], bufs[k])}

\* Every row of table t with the columns of h set.
SetCols(t, h) == [i \in 1..Len(t) |-> Override(t[i], h)]

\* ------------------------------------------------ the restriction engine
\* Buffer radii, in units of 0.0001 degree: buffer(0.001) and buffer(0.0002).
RadioGas == 10
RadioRios == 2

ChemicalRisk == "RIESGO QUIMICO (Gasolinera)"
FederalZone == "ZONA FEDERAL (Rio)"
LandslideRisk == "RIESGO DESLAVE"
Feasible == "FACTIBLE"

EsGasolinera464(code) == Len(code) >= 3 /\ SubSeq(code, 1, 3) = <<4, 6, 4>>
\* str(codigo_act).startswith(('464', '473'))
EsGasolinera(code) ==
    Len(code) >= 3 /\ SubSeq(code, 1, 3) \in {<<4, 6, 4>>, <<4, 7, 3>>}

\* Block A: the rows flagged RESTRICCION_GAS = 1.  No path, a failed read
\* or a layer without the codigo_act column (KeyError, caught) flag nothing.
ids_afectados(gdf, layer) ==
    IF layer.status # "ok" \/ ~layer.has_codigo_act
    THEN {}
    ELSE LET gasolineras == SelectSeq(layer.points, LAMBDA p : EsGasolinera(p.codigo_act))
             buffer_gas == [k \in 1..Len(gasolineras) |->
                               Buffer(PointGeom(gasolineras[k].x), RadioGas)]
         IN  SjoinIntersects(gdf, buffer_gas)

ids_rios_radio_gas(gdf, layer) ==
    IF layer.status # "ok"
    THEN {}
    ELSE SjoinIntersects(gdf, [k \in 1..Len(layer.lines) |-> Buffer(layer.lines[k], RadioGas)])
\* River buffers three times as wide as the hazard buffers.
buffer_rios_mas_ancho(lines) == [k \in 1..Len(lines) |-> Buffer(lines[k], 3 * RadioGas)]
\* buffer_rios = rios.geometry.buffer(0.0002)
buffer_rios(lines) == [k \in 1..Len(lines) |-> Buffer(lines[k], RadioRios)]

\* Block B: the rows flagged RESTRICCION_AGUA = 1.
ids_rios(gdf, layer) ==
    IF layer.status # "ok"
    THEN {}
    ELSE SjoinIntersects(gdf, buffer_rios(layer.lines))

PendienteMayorIgual15(row) ==
    "PENDIENTE_PROMEDIO" \in DOMAIN row /\ RLe(<<15, 1>>, row["PENDIENTE_PROMEDIO"])
\* row.get('PENDIENTE_PROMEDIO', 0) > 15
PendienteMayor15(row) ==
    "PENDIENTE_PROMEDIO" \in DOMAIN row /\ ~RLe(row["PENDIENTE_PROMEDIO"], <<15, 1>>)

dictaminar_agua_primero(row) ==
    IF row["RESTRICCION_AGUA"] = 1 THEN FederalZone
    ELSE IF row["RESTRICCION_GAS"] = 1 THEN ChemicalRisk
    ELSE IF PendienteMayor15(row) THEN LandslideRisk
    ELSE Feasible
dictaminar(row) ==
    IF row["RESTRICCION_GAS"] = 1 THEN ChemicalRisk
    ELSE IF row["RESTRICCION_AGUA"] = 1 THEN FederalZone
    ELSE IF PendienteMayor15(row) THEN LandslideRisk
    ELSE Feasible

\* Both analyses under one try: a failure of the first skips the second.
procesar_restricciones_un_solo_try(gdf_base, denueLayer, riosLayer) ==
    LET falla == denueLayer.status = "unreadable"
                 \/ (denueLayer.status = "ok" /\ ~denueLayer.has_codigo_act)
        gas  == ids_afectados(gdf_base, denueLayer)
        agua == IF falla THEN {} ELSE ids_rios(gdf_base, riosLayer)
        flagged == [i \in 1..Len(gdf_base) |->
                      Override(gdf_base[i],
                               [RESTRICCION_GAS |-> IF i \in gas THEN 1 ELSE 0,
                                RESTRICCION_AGUA |-> IF i \in agua THEN 1 ELSE 0])]
    IN  [i \in 1..Len(gdf_base) |->
            Override(flagged[i], [DICTAMEN_VIABILIDAD |-> dictaminar(flagged[i])])]

\* procesar_restricciones: both flags 0, block A, block B, then the verdict
\* of every row.
procesar_restricciones(gdf_base, denueLayer, riosLayer) ==
    LET gas  == ids_afectados(gdf_base, denueLayer)
        agua == ids_rios(gdf_base, riosLayer)
        flagged == [i \in 1..Len(gdf_base) |->
                      Override(gdf_base[i],
                               [RESTRICCION_GAS |-> IF i \in gas THEN 1 ELSE 0,
                                RESTRICCION_AGUA |-> IF i \in agua THEN 1 ELSE 0])]
    IN  [i \in 1..Len(gdf_base) |->
            Override(flagged[i], [DICTAMEN_VIABILIDAD |-> dictaminar(flagged[i])])]

\* Sequences over S of length at most n.
BSeq(S, n) == UNION {[1..k -> S] : k \in 0..n}

\* Zone polygons drawn: three separate blocks, and two blocks sharing a
\* boundary point with a third apart.
ZoneLayouts ==
    { << <<0, 10>>, <<30, 40>>, <<60, 70>> >>,
      << <<0, 10>>, <<10, 20>>, <<40, 50>> >> }

Geocodes == <<"Z1", "Z2", "Z3">>

BaseZones(layout) ==
    [i \in 1..Len(layout) |-> [CVEGEO |-> Geocodes[i], geometry |-> layout[i]]]

\* Slope statistics drawn for the three zones (3, exactly 15, 20 in turn).
SlopeProfiles ==
    { << <<3, 1>>, <<15, 1>>, <<20, 1>> >>,
      << <<20, 1>>, <<3, 1>>, <<15, 1>> >>,
      << <<15, 1>>, <<20, 1>>, <<3, 1>> >> }

WithSlopes(t, prof) ==
    [i \in 1..Len(t) |-> Override(t[i], [PENDIENTE_PROMEDIO |-> prof[i]])]

\* Economic layers drawn for the restriction engine.
\* A point carries the layer's first column (here a record id) and, when
\* the layer has that column, codigo_act.
RestrPuntos ==
    [first : {<<1>>}, codigo_act : {<<4, 6, 4, 1>>, <<4, 7, 3>>, <<7, 2, 1>>}, x : {5, 20, 100}]

RestrDenues ==
    { [status |-> "absent", has_codigo_act |-> TRUE, points |-> <<>>],
      [status |-> "unreadable", has_codigo_act |-> TRUE, points |-> <<>>] }
    \cup {[status |-> "ok", has_codigo_act |-> TRUE, points |-> ps] :
             ps \in BSeq(RestrPuntos, MaxPuntos)}
    \cup {[status |-> "ok", has_codigo_act |-> FALSE, points |-> <<pt>>] :
             pt \in [first : {<<4, 6, 4, 1>>, <<7, 2, 1>>}, x : {5, 20, 100}]}

RiosLines == {<<12, 20>>, <<35, 65>>}

RiosLayers ==
    { [status |-> "absent", lines |-> <<>>],
      [status |-> "unreadable", lines |-> <<>>] }
    \cup {[status |-> "ok", lines |-> ls] : ls \in BSeq(RiosLines, MaxRios)}

InitRestr ==
    /\ pc = "start"
    /\ df = <<>>
    /\ shp = <<>>
    /\ \E layout \in ZoneLayouts :
          \/ final = BaseZones(layout)
          \/ \E prof \in SlopeProfiles : final = WithSlopes(BaseZones(layout), prof)
    /\ denue \in RestrDenues
    /\ rios \in RiosLayers
    /\ dem = "unused"
    /\ entrada = "unused"
    /\ gen = "unused"
    /\ corridas = <<>>
    /\ fuentes = "unused"
    /\ archivos = "unused"
    /\ retorno = "unused"
    /\ salida = <<>>
    /\ colores = <<>>

\* final = procesar_restricciones(final, PATH_DENUE, PATH_RIOS)
Restricciones ==
    /\ pc = "start"
    /\ final' = procesar_restricciones(final, denue, rios)
    /\ pc' = "done"
    /\ UNCHANGED <<df, shp, denue, rios, dem, entrada, gen, corridas, fuentes, archivos, retorno, salida, colores>>

NextRestr == Restricciones

SpecRestr == InitRestr /\ [][NextRestr]_vars

\* The join with a point on a zone's boundary taken as inside the zone.
join_espacial_en_borde(points, gdf_base) ==
    {pz \in (1..Len(points)) \X (1..Len(gdf_base)) :
        Intersects(PointGeom(points[pz[1]].x), gdf_base[pz[2]]["geometry"])}
\* The (point, zone) pairs of sjoin(gdf_denue, gdf_base, how='inner',
\* predicate='within').
join_espacial(points, gdf_base) ==
    {pz \in (1..Len(points)) \X (1..Len(gdf_base)) :
        Within(points[pz[1]].x, gdf_base[pz[2]]["geometry"])}

cols_req == <<"ECO_TURISMO", "ECO_COMERCIO", "ECO_INDUSTRIA", "ECO_SERVICIOS", "ECO_TOTAL">>

EcoCols == {cols_req[i] : i \in 1..5} \cup {"IND_VOCACION_TURISTICA"}

Vocacion(tur, tot) == Frac(tur, IF tot = 0 THEN 1 ELSE tot)

\* The counts joined to the base table by an inner merge: a zone without
\* any point within it is dropped.
integrar_economia_merge_inner(gdf_base, layer) ==
    IF layer.status # "ok"
    THEN gdf_base
    ELSE LET pts == ConSector(layer.points)
             j == join_espacial(pts, gdf_base)
             total(cve) == Cardinality({pz \in j : gdf_base[pz[2]]["CVEGEO"] = cve})
             con == SelectSeq(gdf_base, LAMBDA z : total(z["CVEGEO"]) > 0)
         IN  [i \in 1..Len(con) |->
                Override(con[i], [ECO_TOTAL |-> total(con[i]["CVEGEO"]),
                                  ECO_TURISMO |-> 0,
                                  IND_VOCACION_TURISTICA |-> RZero])]

\* The no-file branch without its zero fill.
integrar_economia_sin_relleno(gdf_base, layer) == gdf_base

\* integrar_economia.  No file: the six columns set to 0.  A failed read
\* or join (the except branch): gdf_base returned as it came.  Otherwise
\* the pivot of counts by (CVEGEO, SECTOR_SCIAN), left-merged on CVEGEO,
\* absent counts 0, then the tourism ratio.
integrar_economia(gdf_base, layer) ==
    IF layer.status = "absent"
    THEN SetCols(gdf_base, [c \in EcoCols |->
                               IF c = "IND_VOCACION_TURISTICA" THEN RZero ELSE 0])
    ELSE IF layer.status # "ok"
    THEN gdf_base
    ELSE LET pts == ConSector(layer.points)
             j == join_espacial(pts, gdf_base)
             \* the sectors that occur in the join: the pivot's columns
             sectores == {pts[pz[1]]["SECTOR_SCIAN"] : pz \in j}
             conteo(cve, sec) ==
                 Cardinality({pz \in j : /\ gdf_base[pz[2]]["CVEGEO"] = cve
                                           /\ pts[pz[1]]["SECTOR_SCIAN"] = sec})
             total(cve) == Cardinality({pz \in j : gdf_base[pz[2]]["CVEGEO"] = cve})
         IN  [i \in 1..Len(gdf_base) |->
                LET cve == gdf_base[i]["CVEGEO"]
                    counts == [c \in sectores \cup {cols_req[n] : n \in 1..5} |->
                                 IF c = "ECO_TOTAL" THEN total(cve) ELSE conteo(cve, c)]
                IN  Override(Override(gdf_base[i], counts),
                             [IND_VOCACION_TURISTICA |->
                                 Vocacion(counts["ECO_TURISMO"], counts["ECO_TOTAL"])])]

\* Economic layers drawn for the integrator: a hotel, a fuel retailer, a
\* factory and an unmapped code, inside the first zone, on its boundary
\* and inside the second zone.
EcoPuntos ==
    [first : {<<1>>}, codigo_act : {<<7, 2, 1>>, <<4, 6, 4>>, <<3, 1, 1>>, <<9, 9, 9>>},
     x : {5, 10, 35}]

\* Zone polygons drawn for the integrator: the layouts above and a layer
\* whose first two polygons overlap.
EcoLayouts == ZoneLayouts \cup { << <<0, 10>>, <<2, 20>>, <<40, 50>> >> }

EcoDenues ==
    { [status |-> "absent", has_codigo_act |-> TRUE, points |-> <<>>],
      [status |-> "unreadable", has_codigo_act |-> TRUE, points |-> <<>>] }
    \cup {[status |-> "ok", has_codigo_act |-> TRUE, points |-> ps] :
             ps \in BSeq(EcoPuntos, MaxPuntos)}
    \cup {[status |-> "ok", has_codigo_act |-> FALSE, points |-> <<pt>>] :
             pt \in [first : {<<7, 2, 1>>, <<1>>}, x : {5, 10, 35}]}

InitEco ==
    /\ pc = "start"
    /\ df = <<>>
    /\ shp = <<>>
    /\ \E layout \in EcoLayouts : final = BaseZones(layout)
    /\ denue \in EcoDenues
    /\ rios = "unused"
    /\ dem = "unused"
    /\ entrada = "unused"
    /\ gen = "unused"
    /\ corridas = <<>>
    /\ fuentes = "unused"
    /\ archivos = "unused"
    /\ retorno = "unused"
    /\ salida = <<>>
    /\ colores = <<>>

\* final = integrar_economia(final, PATH_DENUE)
Economia ==
    /\ pc = "start"
    /\ final' = integrar_economia(final, denue)
    /\ pc' = "done"
    /\ UNCHANGED <<df, shp, denue, rios, dem, entrada, gen, corridas, fuentes, archivos, retorno, salida, colores>>

NextEco == Economia

SpecEco == InitEco /\ [][NextEco]_vars

\* Activity codes drawn for the classifier: every digit string of length
\* 1 to MaxCodeLen, as the codigo_act column or as the first column of a
\* layer without one.
Digits == 0..9

Codes == UNION {[1..n -> Digits] : n \in 1..MaxCodeLen}

InitScian ==
    /\ pc = "start"
    /\ df = <<>>
    /\ shp = <<>>
    /\ final = <<>>
    /\ \/ \E c \in Codes :
             denue = [status |-> "ok", has_codigo_act |-> TRUE,
                      points |-> <<[first |-> <<7, 2, 1>>, codigo_act |-> c, x |-> 5]>>]
       \/ \E c \in Codes :
             denue = [status |-> "ok", has_codigo_act |-> FALSE,
                      points |-> <<[first |-> c, x |-> 5]>>]
    /\ rios = "unused"
    /\ dem = "unused"
    /\ entrada = "unused"
    /\ gen = "unused"
    /\ corridas = <<>>
    /\ fuentes = "unused"
    /\ archivos = "unused"
    /\ retorno = "unused"
    /\ salida = <<>>
    /\ colores = <<>>

\* The SECTOR_SCIAN column of the loaded layer (line 277).
Clasificar ==
    /\ pc = "start"
    /\ denue' = [denue EXCEPT !.points = ConSector(denue.points)]
    /\ pc' = "done"
    /\ UNCHANGED <<df, shp, final, rios, dem, entrada, gen, corridas, fuentes, archivos, retorno, salida, colores>>

NextScian == Clasificar

SpecScian == InitScian /\ [][NextScian]_vars

\* ------------------------------------------------ the topography analyzer
SinDato == "Plano (Sin Dato)"
Viable == "Plano (Viable)"
Condicionado == "Lomerio (Condicionado)"
NoUrbanizable == "NO URBANIZABLE (>15%)"

\* np.random.seed(42); np.random.uniform(1, 30, size=n): value i of the
\* stream, 1 + 29 u_i with u = 0.37454012, 0.95071431, 0.73199394,
\* 0.59865848, 0.15601864, 0.15599452, 0.05808361, 0.86617615, 0.60111501,
\* 0.70807258, ..., to four decimals (ten values modelled).  The stream
\* does not depend on n.
UniformeSemilla42(i) ==
    CASE i = 1 -> <<118617, 10000>>
      [] i = 2 -> <<285707, 10000>>
      [] i = 3 -> <<222278, 10000>>
      [] i = 4 -> <<183611, 10000>>
      [] i = 5 -> Frac(55245, 10000)
      [] i = 6 -> Frac(55238, 10000)
      [] i = 7 -> Frac(26844, 10000)
      [] i = 8 -> Frac(261191, 10000)
      [] i = 9 -> Frac(184323, 10000)
      [] OTHER -> Frac(215341, 10000)

\* The same stream of a generator seeded otherwise (the values of seed 0:
\* u = 0.5488135, 0.71518937, 0.60276338, 0.54488318, 0.4236548,
\* 0.64589411, 0.43758721, 0.891773, 0.96366276, 0.38344152).
UniformeOtraSemilla(i) ==
    CASE i = 1 -> Frac(169156, 10000)
      [] i = 2 -> Frac(217405, 10000)
      [] i = 3 -> Frac(184801, 10000)
      [] i = 4 -> Frac(168016, 10000)
      [] i = 5 -> Frac(132860, 10000)
      [] i = 6 -> Frac(197309, 10000)
      [] i = 7 -> Frac(136900, 10000)
      [] i = 8 -> Frac(268614, 10000)
      [] i = 9 -> Frac(289462, 10000)
      [] OTHER -> Frac(121198, 10000)

\* The global generator: its seed and the number of values drawn since.
np_random_seed(rng, semilla) == [seed |-> semilla, pos |-> 0]

\* np.random.uniform(1, 30, size=n) on generator rng: the n values and the
\* generator afterwards.
np_random_uniform(rng, n) ==
    [vals |-> [i \in 1..n |->
                 IF rng.seed = 42 THEN UniformeSemilla42(rng.pos + i)
                 ELSE UniformeOtraSemilla(rng.pos + i)],
     gen |-> [rng EXCEPT !.pos = @ + n]]

\* The generator left as it is found.
SinSemilla(rng) == rng
\* np.random.seed(42) before the fallback values are drawn.
SemillaRespaldo(rng) == np_random_seed(rng, 42)

\* The thresholds taken as inclusive upper limits.
clasificar_pendiente_umbral_inclusivo(val) ==
    IF RLe(val, <<5, 1>>) THEN Viable
    ELSE IF RLe(val, <<15, 1>>) THEN Condicionado
    ELSE NoUrbanizable
\* clasificar_pendiente: below 5, below 15, otherwise.
clasificar_pendiente(val) ==
    IF ~RLe(<<5, 1>>, val) THEN Viable
    ELSE IF ~RLe(<<15, 1>>, val) THEN Condicionado
    ELSE NoUrbanizable

\* A masking failure taken as a failure of the whole calculation.
calcular_pendiente_zonal_aborta(gdf, raster) ==
    IF ~raster.has_rasterio \/ raster.status = "absent" \/ raster.status = "unreadable"
       \/ \E i \in 1..Len(gdf) : raster.mask[i].kind = "raises"
    THEN [ok |-> FALSE, vals |-> <<>>]
    ELSE [ok |-> TRUE, vals |-> [i \in 1..Len(gdf) |-> raster.mask[i].val]]

\* calcular_pendiente_zonal: None ([ok |-> FALSE]) without rasterio, without
\* a path or when the raster cannot be opened; otherwise one value per
\* polygon in order: np.std(valid_data) * 5, or 0 when the mask raises or
\* leaves no valid sample.  raster.mask[i] is what masking polygon i gives.
calcular_pendiente_zonal(gdf, raster) ==
    IF ~raster.has_rasterio \/ raster.status = "absent" \/ raster.status = "unreadable"
    THEN [ok |-> FALSE, vals |-> <<>>]
    ELSE [ok |-> TRUE,
          vals |-> [i \in 1..Len(gdf) |->
                      IF raster.mask[i].kind = "std" THEN raster.mask[i].val ELSE RZero]]

SetPendientes(gdf, vals) ==
    [i \in 1..Len(gdf) |->
        Override(gdf[i], [PENDIENTE_PROMEDIO |-> vals[i],
                          CLASIFICACION_TOPOGRAFICA |-> clasificar_pendiente(vals[i])])]

\* What the claim under C10 describes: the fallback also without a path.
procesar_topografia_fallback_sin_ruta(gdf_base, raster) ==
    LET pendientes_reales == calcular_pendiente_zonal(gdf_base, raster)
    IN  IF pendientes_reales.ok /\ Len(pendientes_reales.vals) > 0
        THEN SetPendientes(gdf_base, pendientes_reales.vals)
        ELSE SetPendientes(gdf_base, [i \in 1..Len(gdf_base) |-> UniformeSemilla42(i)])

\* procesar_topografia with the global generator rng it finds: the table it
\* returns and the generator it leaves.  No path: slope 0 and the default
\* label for every zone.  Otherwise the zonal values when
\* calcular_pendiente_zonal returns a non-empty list, else the uniform
\* values drawn after seeding; then the labels.
procesar_topografia_gen(gdf_base, raster, rng) ==
    IF raster.status = "absent"
    THEN [tabla |-> SetCols(gdf_base, [PENDIENTE_PROMEDIO |-> RZero,
                                       CLASIFICACION_TOPOGRAFICA |-> SinDato]),
          gen |-> rng]
    ELSE LET pendientes_reales == calcular_pendiente_zonal(gdf_base, raster)
         IN  IF pendientes_reales.ok /\ Len(pendientes_reales.vals) > 0
             THEN [tabla |-> SetPendientes(gdf_base, pendientes_reales.vals), gen |-> rng]
             ELSE LET u == np_random_uniform(SemillaRespaldo(rng), Len(gdf_base))
                  IN  [tabla |-> SetPendientes(gdf_base, u.vals), gen |-> u.gen]

\* The table procesar_topografia returns, here from a generator that was
\* never seeded.
procesar_topografia(gdf_base, raster) ==
    procesar_topografia_gen(gdf_base, raster, [seed |-> 0, pos |-> 0]).tabla

\* What masking one polygon gives: an exception, no valid sample, or the
\* scaled dispersion of its samples (0, 3, exactly 5, exactly 15, 20).
MaskOutcomes ==
    {[kind |-> "raises", val |-> RZero], [kind |-> "empty", val |-> RZero]}
    \cup {[kind |-> "std", val |-> v] :
             v \in {<<0, 1>>, <<3, 1>>, <<5, 1>>, <<15, 1>>, <<20, 1>>}}

\* Rasters drawn for n zones.
Rasters(n) ==
    { [status |-> "absent", has_rasterio |-> h, mask |-> <<>>] : h \in BOOLEAN }
    \cup { [status |-> "unreadable", has_rasterio |-> h, mask |-> <<>>] : h \in BOOLEAN }
    \cup { [status |-> "ok", has_rasterio |-> FALSE, mask |-> <<>>] }
    \cup { [status |-> "ok", has_rasterio |-> TRUE, mask |-> m] :
              m \in [1..n -> MaskOutcomes] }

\* Zone tables of 0 to MaxZonas separate zones.
ZoneTables ==
    {[i \in 1..n |-> [CVEGEO |-> "Z" \o ToString(i),
                      geometry |-> <<30 * (i - 1), 30 * (i - 1) + 10>>]] :
        n \in 0..MaxZonas}

InitTopo ==
    /\ pc = "start"
    /\ df = <<>>
    /\ shp = <<>>
    /\ final \in ZoneTables
    /\ denue = "unused"
    /\ rios = "unused"
    /\ dem \in Rasters(Len(final))
    /\ entrada = "unused"
    /\ gen = "unused"
    /\ corridas = <<>>
    /\ fuentes = "unused"
    /\ archivos = "unused"
    /\ retorno = "unused"
    /\ salida = <<>>
    /\ colores = <<>>

\* final = procesar_topografia(final, PATH_DEM)
Topografia ==
    /\ pc = "start"
    /\ final' = procesar_topografia(final, dem)
    /\ pc' = "done"
    /\ UNCHANGED <<df, shp, denue, rios, dem, entrada, gen, corridas, fuentes, archivos, retorno, salida, colores>>

NextTopo == Topografia

SpecTopo == InitTopo /\ [][NextTopo]_vars

\* ------------------------------------- repeated runs of the topography
\* Runs recorded.
MaxCorridas == 2

\* The generator a run finds: a process that has just started (some seed,
\* nothing drawn) or one in which two values were drawn before.
GenStates == {[seed |-> sd, pos |-> p] : sd \in {0, 42}, p \in {0, 2}}

\* Rasters drawn for n zones: none, an unusable one, and readable ones on
\* which masking gives every polygon the same outcome.
RastersCorridas(n) ==
    {r \in Rasters(n) : \A i, j \in 1..Len(r.mask) : r.mask[i] = r.mask[j]}

InitCorridas ==
    /\ pc = "start"
    /\ df = <<>>
    /\ shp = <<>>
    /\ final \in ZoneTables
    /\ denue = "unused"
    /\ rios = "unused"
    /\ dem \in RastersCorridas(Len(final))
    /\ entrada = "unused"
    /\ gen = [seed |-> 0, pos |-> 0]
    /\ corridas = <<>>
    /\ fuentes = "unused"
    /\ archivos = "unused"
    /\ retorno = "unused"
    /\ salida = <<>>
    /\ colores = <<>>

\* One more run of procesar_topografia over the zones of final, in a
\* process whose generator is g0 when the step starts.
Corrida ==
    /\ pc = "start"
    /\ Len(corridas) < MaxCorridas
    /\ \E g0 \in GenStates :
          LET r == procesar_topografia_gen(final, dem, g0) IN
          /\ corridas' = Append(corridas, [gen0 |-> g0, tabla |-> r.tabla])
          /\ gen' = r.gen
    /\ pc' = IF Len(corridas) + 1 = MaxCorridas THEN "done" ELSE "start"
    /\ UNCHANGED <<df, shp, final, denue, rios, dem, entrada, fuentes, archivos, retorno, salida, colores>>

NextCorridas == Corrida

SpecCorridas == InitCorridas /\ [][NextCorridas]_vars

\* ------------------------------------------------------------ procesar_geo
MUNICIPIO_OBJETIVO == "032"
LOC_CABECERA == "0001"
\* 1.048 and 1.012
FACTOR_URBANO == <<1048, 1000>>
FACTOR_RURAL == <<1012, 1000>>

\* The columns the geographic filter indexes directly, by zone kind.
ColsFiltro(tipo) ==
    IF tipo = "Urbano" THEN {"ENTIDAD", "MUN", "LOC", "AGEB", "MZA"}
    ELSE {"ENTIDAD", "MUN", "LOC"}

\* The filter on the municipality alone: total rows and the head town kept.
FiltradoSoloMunicipio(t, tipo, filtro_mun) ==
    LET cve(r) ==
            IF tipo = "Urbano"
            THEN r["ENTIDAD"] \o r["MUN"] \o r["LOC"] \o r["AGEB"] \o r["MZA"]
            ELSE r["ENTIDAD"] \o r["MUN"] \o r["LOC"]
        kept == SelectSeq(t, LAMBDA r : r["MUN"] = filtro_mun)
    IN  [i \in 1..Len(kept) |-> Override(kept[i], [CVEGEO |-> cve(kept[i])])]

\* Step 3: the rows of the target municipality (urban: without the MZA 000
\* totals; rural: without the total rows and the head town), each with its
\* CVEGEO key.
FiltradoGeografico(t, tipo, filtro_mun) ==
    LET keep(r) ==
            IF tipo = "Urbano"
            THEN r["MUN"] = filtro_mun /\ r["MZA"] # "000"
            ELSE r["MUN"] = filtro_mun
                 /\ r["LOC"] \notin {"0000", "9998", "9999", LOC_CABECERA}
        cve(r) ==
            IF tipo = "Urbano"
            THEN r["ENTIDAD"] \o r["MUN"] \o r["LOC"] \o r["AGEB"] \o r["MZA"]
            ELSE r["ENTIDAD"] \o r["MUN"] \o r["LOC"]
        kept == SelectSeq(t, keep)
    IN  [i \in 1..Len(kept) |-> Override(kept[i], [CVEGEO |-> cve(kept[i])])]

\* One row of shp.merge(df, on='CVEGEO'): the columns of both sides, a
\* column name they share (other than the key) suffixed _x and _y.
MergeRow(l, r) ==
    LET both == (DOMAIN l \cap DOMAIN r) \ {"CVEGEO"}
        plain == (DOMAIN l \cup DOMAIN r) \ both
    IN  [n \in plain \cup {c \o "_x" : c \in both} \cup {c \o "_y" : c \in both} |->
            IF n \in plain
            THEN (IF n \in DOMAIN l THEN l[n] ELSE r[n])
            ELSE IF \E c \in both : n = c \o "_x"
                 THEN l[CHOOSE c \in both : n = c \o "_x"]
                 ELSE r[CHOOSE c \in both : n = c \o "_y"]]

RECURSIVE MergeFrom(_, _, _, _)
\* The merged rows from left row i on; how = "inner" keeps a left row once
\* per right row with its key, how = "left" also keeps unmatched left rows.
MergeFrom(left, right, i, how) ==
    IF i > Len(left) THEN <<>>
    ELSE LET hits == SelectSeq(right, LAMBDA r : r["CVEGEO"] = left[i]["CVEGEO"])
             here == IF Len(hits) = 0 /\ how = "left"
                     THEN <<left[i]>>
                     ELSE [k \in 1..Len(hits) |-> MergeRow(left[i], hits[k])]
         IN  here \o MergeFrom(left, right, i + 1, how)

MergeLeft(left, right) == MergeFrom(left, right, 1, "left")
\* shp.merge(df, on='CVEGEO', how='inner')
MergeInner(left, right) == MergeFrom(left, right, 1, "inner")

\* safe(c): the numeric column, or 0 when final lacks it.
safe(row, c) == IF c \in DOMAIN row THEN row[c] ELSE 0

GRUPOS ==
    [POBTOT |-> "P25_TOT", POBFEM |-> "P25_FEM", POBMAS |-> "P25_MAS",
     P3YM_HLI |-> "P25_IND", POB_AFRO |-> "P25_AFRO", PCON_DISC |-> "P25_DISC",
     HOGJEF_F |-> "P25_JEFAS", POB0_14 |-> "P25_NINOS", P_60YMAS |-> "P25_MAYORES"]

\* Step 6 on one merged row: TIPO, P20_TOT and the projected groups.
Proyeccion(row, tipo, factor) ==
    LET dest == {GRUPOS[v] : v \in DOMAIN GRUPOS}
        orig(d) == CHOOSE v \in DOMAIN GRUPOS : GRUPOS[v] = d
    IN  Override(Override(row, [TIPO |-> tipo, P20_TOT |-> safe(row, "POBTOT")]),
                 [d \in dest |-> Frac(safe(row, orig(d)) * factor[1], factor[2])])

\* How procesar_geo ends on its inputs: "none" (a missing path or a failed
\* read: it returns None), "raises" (KeyError in the filter or in
\* procesar_indicadores, not caught), "ok".
procesar_geo_fin(arg, capa, tabla) ==
    IF ~arg.shp_path \/ ~arg.csv_path \/ ~arg.legible THEN "none"
    ELSE IF \E i \in 1..Len(tabla) : ~(ColsFiltro(arg.tipo) \subseteq DOMAIN tabla[i])
    THEN "raises"
    ELSE IF indicadores_raises(FiltradoGeografico(tabla, arg.tipo, arg.filtro_mun))
    THEN "raises"
    ELSE "ok"

\* The dataset procesar_geo returns when it ends "ok".
procesar_geo(arg, capa, tabla, denueLayer, raster, riosLayer) ==
    LET filtrado == FiltradoGeografico(tabla, arg.tipo, arg.filtro_mun)
        merged == MergeInner(capa, procesar_indicadores(filtrado))
        proj == [i \in 1..Len(merged) |-> Proyeccion(merged[i], arg.tipo, arg.factor)]
    IN  procesar_restricciones(
            procesar_topografia(integrar_economia(proj, denueLayer), raster),
            denueLayer, riosLayer)

\* The arguments of the two calls of the script.
LlamadaUrbana ==
    [tipo |-> "Urbano", filtro_mun |-> MUNICIPIO_OBJETIVO, factor |-> FACTOR_URBANO,
     shp_path |-> TRUE, csv_path |-> TRUE, legible |-> TRUE]
LlamadaRural ==
    [tipo |-> "Rural", filtro_mun |-> MUNICIPIO_OBJETIVO, factor |-> FACTOR_RURAL,
     shp_path |-> TRUE, csv_path |-> TRUE, legible |-> TRUE]

\* Census values of the k-th row drawn: a zero population, a very large
\* one, a non-numeric one, ordinary counts.
FilaCenso(k) ==
    CASE k % 4 = 1 -> CensusRow(Num(MaxCount), Num(1), Num(MaxCount), Num(1),
                                Num(1), Num(0), {})
      [] k % 4 = 2 -> CensusRow(Num(0), Num(0), Num(0), Num(0), Num(MaxCount), Num(1), {})
      [] k % 4 = 3 -> CensusRow(Num(VeryLarge), Num(MaxCount), NonNumeric, Num(MaxCount),
                                Num(VeryLarge), NonNumeric, {})
      [] OTHER -> CensusRow(NonNumeric, Num(-1), Num(1), Num(0), Num(-1), Num(MaxCount), {})

\* The census rows a table is drawn from, with distinct keys: blocks 001
\* and 002 and the MZA 000 total of the target municipality and of a
\* neighbour (urban); localities 0002 and 0003, the head town 0001 and the
\* total row 0000, of both municipalities (rural).
ClavesUrbanas ==
    << [ENTIDAD |-> "30", MUN |-> "032", LOC |-> "0001", AGEB |-> "001A", MZA |-> "001"],
       [ENTIDAD |-> "30", MUN |-> "032", LOC |-> "0001", AGEB |-> "001A", MZA |-> "002"],
       [ENTIDAD |-> "30", MUN |-> "032", LOC |-> "0001", AGEB |-> "001A", MZA |-> "000"],
       [ENTIDAD |-> "30", MUN |-> "033", LOC |-> "0001", AGEB |-> "001A", MZA |-> "001"],
       [ENTIDAD |-> "30", MUN |-> "033", LOC |-> "0001", AGEB |-> "001A", MZA |-> "000"] >>

ClavesRurales ==
    << [ENTIDAD |-> "30", MUN |-> "032", LOC |-> "0002"],
       [ENTIDAD |-> "30", MUN |-> "032", LOC |-> "0003"],
       [ENTIDAD |-> "30", MUN |-> "032", LOC |-> "0001"],
       [ENTIDAD |-> "30", MUN |-> "032", LOC |-> "0000"],
       [ENTIDAD |-> "30", MUN |-> "033", LOC |-> "0002"] >>

\* The subsequence of seq at the positions in idx.
RECURSIVE Pick(_, _, _)
Pick(seq, idx, i) ==
    IF i > Len(seq) THEN <<>>
    ELSE (IF i \in idx THEN <<seq[i]>> ELSE <<>>) \o Pick(seq, idx, i + 1)

Claves(tipo) == IF tipo = "Urbano" THEN ClavesUrbanas ELSE ClavesRurales

\* Census tables of a kind: any selection of the rows above.
TablasCenso(tipo) ==
    LET filas == [k \in 1..Len(Claves(tipo)) |-> Override(FilaCenso(k), Claves(tipo)[k])]
    IN  {Pick(filas, idx, 1) : idx \in SUBSET (1..Len(filas))}

\* A table without column c.
SinColumna(t, c) == [i \in 1..Len(t) |-> [n \in DOMAIN t[i] \ {c} |-> t[i][n]]]

\* The polygons a layer is drawn from, with distinct keys: two polygons
\* with a census row that passes the filter, one whose census row the
\* filter drops, one with no census row, one of the neighbour municipality.
PoligonosUrbanos ==
    << [CVEGEO |-> "300320001001A001", geometry |-> <<0, 10>>],
       [CVEGEO |-> "300320001001A002", geometry |-> <<30, 40>>],
       [CVEGEO |-> "300320001001A000", geometry |-> <<60, 70>>],
       [CVEGEO |-> "300320001001A777", geometry |-> <<90, 100>>],
       [CVEGEO |-> "300330001001A001", geometry |-> <<120, 130>>] >>

PoligonosRurales ==
    << [CVEGEO |-> "300320002", geometry |-> <<0, 10>>],
       [CVEGEO |-> "300320003", geometry |-> <<30, 40>>],
       [CVEGEO |-> "300320001", geometry |-> <<60, 70>>],
       [CVEGEO |-> "300320777", geometry |-> <<90, 100>>],
       [CVEGEO |-> "300330002", geometry |-> <<120, 130>>] >>

CapasPoligonos(tipo) ==
    LET ps == IF tipo = "Urbano" THEN PoligonosUrbanos ELSE PoligonosRurales
    IN  {Pick(ps, idx, 1) : idx \in SUBSET (1..Len(ps))}

\* The optional sources drawn for a run of procesar_geo: <<economic
\* layer, raster, river layer>>.
MascaraFija ==
    << [kind |-> "std", val |-> <<20, 1>>], [kind |-> "raises", val |-> RZero],
       [kind |-> "std", val |-> <<15, 1>>], [kind |-> "std", val |-> <<3, 1>>] >>

Entornos ==
    { << [status |-> "absent", has_codigo_act |-> TRUE, points |-> <<>>],
         [status |-> "absent", has_rasterio |-> TRUE, mask |-> <<>>],
         [status |-> "absent", lines |-> <<>>] >>,
      << [status |-> "ok", has_codigo_act |-> TRUE,
          points |-> << [first |-> <<1>>, codigo_act |-> <<7, 2, 1>>, x |-> 5],
                        [first |-> <<2>>, codigo_act |-> <<4, 6, 4>>, x |-> 20] >>],
         [status |-> "ok", has_rasterio |-> TRUE, mask |-> MascaraFija],
         [status |-> "ok", lines |-> << <<12, 20>> >>] >>,
      << [status |-> "unreadable", has_codigo_act |-> TRUE, points |-> <<>>],
         [status |-> "unreadable", has_rasterio |-> TRUE, mask |-> <<>>],
         [status |-> "unreadable", lines |-> <<>>] >>,
      << [status |-> "ok", has_codigo_act |-> FALSE,
          points |-> << [first |-> <<7, 2, 1>>, x |-> 35] >>],
         [status |-> "ok", has_rasterio |-> FALSE, mask |-> <<>>],
         [status |-> "ok", lines |-> << <<35, 65>> >>] >> }

InitGeo ==
    /\ pc = "start"
    /\ final = <<>>
    /\ gen = "unused"
    /\ corridas = <<>>
    /\ fuentes = "unused"
    /\ archivos = "unused"
    /\ retorno = "unused"
    /\ salida = <<>>
    /\ colores = <<>>
    /\ \E llamada \in {LlamadaUrbana, LlamadaRural} :
          \/ /\ entrada = llamada
             /\ \/ df \in TablasCenso(llamada.tipo)
                \/ \E t \in TablasCenso(llamada.tipo), c \in {"MUN", "P_15YMAS", "PEA"} :
                      Len(t) = Len(Claves(llamada.tipo)) /\ df = SinColumna(t, c)
             /\ shp \in CapasPoligonos(llamada.tipo)
          \/ /\ entrada \in { [llamada EXCEPT !.shp_path = FALSE],
                               [llamada EXCEPT !.csv_path = FALSE],
                               [llamada EXCEPT !.legible = FALSE] }
             /\ df \in {t \in TablasCenso(llamada.tipo) : Len(t) = 2}
             /\ shp \in {c \in CapasPoligonos(llamada.tipo) : Len(c) = 2}
    /\ \E e \in Entornos : denue = e[1] /\ dem = e[2] /\ rios = e[3]

\* final = procesar_geo(shp_path, csv_path, tipo, filtro_mun, factor).  With
\* no merged row the row-wise apply of dictaminar returns a frame, and
\* whether assigning it to the verdict column raises depends on the pandas
\* version: both outcomes are allowed.
ProcesarGeo ==
    /\ pc = "start"
    /\ LET fin == procesar_geo_fin(entrada, shp, df) IN
       \/ /\ fin = "none"
          /\ pc' = "none"
          /\ final' = final
       \/ /\ fin = "raises"
          /\ pc' = "error"
          /\ final' = final
       \/ /\ fin = "ok"
          /\ LET out == procesar_geo(entrada, shp, df, denue, dem, rios) IN
             \/ pc' = "done" /\ final' = out
             \/ Len(out) = 0 /\ pc' = "error" /\ final' = final
    /\ UNCHANGED <<df, shp, denue, rios, dem, entrada, gen, corridas, fuentes, archivos, retorno, salida, colores>>

NextGeo == ProcesarGeo

SpecGeo == InitGeo /\ [][NextGeo]_vars

\* ------------------------------------------------------- the script
Tipos == {"Urbano", "Rural"}

Llamada(tipo) == IF tipo = "Urbano" THEN LlamadaUrbana ELSE LlamadaRural

\* The census table of a kind with every row drawn, and the same table
\* with the municipality name column.
TablaCompleta(tipo) == CHOOSE t \in TablasCenso(tipo) : Len(t) = Len(Claves(tipo))

ConNombre(t) == SetCols(t, [NOM_MUN |-> "Catemaco"])

\* The polygon layer of a kind with every polygon drawn, and the layer
\* that holds only the polygon without census row.
CapaCompleta(tipo) == CHOOSE c \in CapasPoligonos(tipo) : Len(c) = 5

CapaSinCruce(tipo) == <<CapaCompleta(tipo)[4]>>

\* The required sources the script may find for a kind: a missing layer, a
\* missing table, an unreadable file, sources giving two zones (with and
\* without the name column), sources whose join is empty (likewise), and
\* a table without the P_15YMAS column.
FuentesRequeridas(tipo) ==
    LET ll == Llamada(tipo)
        t == TablaCompleta(tipo)
        c == CapaCompleta(tipo)
    IN  { [arg |-> [ll EXCEPT !.shp_path = FALSE], capa |-> <<>>, tabla |-> ConNombre(t)],
          [arg |-> [ll EXCEPT !.csv_path = FALSE], capa |-> c, tabla |-> <<>>],
          [arg |-> [ll EXCEPT !.legible = FALSE], capa |-> c, tabla |-> ConNombre(t)],
          [arg |-> ll, capa |-> c, tabla |-> ConNombre(t)],
          [arg |-> ll, capa |-> c, tabla |-> t],
          [arg |-> ll, capa |-> CapaSinCruce(tipo), tabla |-> ConNombre(t)],
          [arg |-> ll, capa |-> CapaSinCruce(tipo), tabla |-> t],
          [arg |-> ll, capa |-> c, tabla |-> SinColumna(ConNombre(t), "P_15YMAS")] }

\* An output file: absent, left by an earlier run, or written by this one.
SinArchivo == [existe |-> FALSE, de_esta_corrida |-> FALSE, datos |-> <<>>]

ArchivoPrevio ==
    [existe |-> TRUE, de_esta_corrida |-> FALSE, datos |-> << [CVEGEO |-> "previo"] >>]

\* u.to_crs(epsg=4326).to_file(ruta_salida, driver='GeoJSON')
to_file(arch, tipo, datos) ==
    [arch EXCEPT ![tipo] = [existe |-> TRUE, de_esta_corrida |-> TRUE, datos |-> datos]]

\* The guard written as always true.
siempre_verdadero(ret) == TRUE
\* if u is not None / if r is not None
no_es_None(ret) == ret # "none"

\* Whether the urban adjustments raise: u['NOM_MUN'].iloc[0] on a dataset
\* without rows that has the NOM_MUN column (IndexError).
ajustes_urbano_falla(u, tabla) ==
    Len(u) = 0 /\ Len(tabla) > 0 /\ "NOM_MUN" \in DOMAIN tabla[1]

\* The urban adjustments: NOM_LOC from the municipality name of the first
\* row, CVE_AGEB from AGEB_y, AGEB or 'SN'.
ajustes_urbano(u) ==
    LET nom == IF Len(u) > 0 /\ "NOM_MUN" \in DOMAIN u[1] THEN u[1]["NOM_MUN"]
               ELSE "Municipio"
    IN  [i \in 1..Len(u) |->
            Override(u[i],
                     [NOM_LOC |-> nom \o " (Cabecera)",
                      CVE_AGEB |-> IF "AGEB_y" \in DOMAIN u[i] THEN u[i]["AGEB_y"]
                                   ELSE IF "AGEB" \in DOMAIN u[i] THEN u[i]["AGEB"]
                                   ELSE "SN"])]

\* r['CVE_AGEB'] = 'RURAL'
ajustes_rural(r) == SetCols(r, [CVE_AGEB |-> "RURAL"])

Init ==
    /\ pc = "urbano"
    /\ df = <<>>
    /\ shp = <<>>
    /\ final = <<>>
    /\ \E e \in Entornos : denue = e[1] /\ dem = e[2] /\ rios = e[3]
    /\ entrada = "unused"
    /\ gen = "unused"
    /\ corridas = <<>>
    /\ fuentes \in [Tipos -> FuentesRequeridas("Urbano") \cup FuentesRequeridas("Rural")]
    /\ \A k \in Tipos : fuentes[k] \in FuentesRequeridas(k)
    /\ archivos \in [Tipos -> {SinArchivo, ArchivoPrevio}]
    /\ retorno = [k \in Tipos |-> "pendiente"]
    /\ salida = <<>>
    /\ colores = <<>>

\* The process dies of an uncaught exception: exit status 1.
Muere(tipo, ret) ==
    /\ pc' = "fin"
    /\ salida' = <<1>>
    /\ retorno' = [retorno EXCEPT ![tipo] = ret]
    /\ archivos' = archivos

\* One block of the script: the call of procesar_geo for a kind, the
\* adjustments and the export, then on to sig.  An uncaught KeyError of
\* procesar_geo or IndexError of the urban adjustments ends the process;
\* on a dataset without rows the verdict assignment and the export may
\* raise, depending on the library versions.
Bloque(tipo, sig) ==
    LET f == fuentes[tipo]
        fin == procesar_geo_fin(f.arg, f.capa, f.tabla)
        ret == IF fin = "ok" THEN "dataset" ELSE fin
        datos == IF fin = "ok" THEN procesar_geo(f.arg, f.capa, f.tabla, denue, dem, rios)
                 ELSE <<>>
    IN  \/ /\ fin = "raises"
           /\ Muere(tipo, "raises")
        \/ /\ fin = "ok" /\ Len(datos) = 0
           /\ Muere(tipo, "raises")
        \/ /\ fin # "raises"
           /\ no_es_None(ret) /\ tipo = "Urbano" /\ ajustes_urbano_falla(datos, f.tabla)
           /\ Muere(tipo, ret)
        \/ /\ fin # "raises"
           /\ ~(no_es_None(ret) /\ tipo = "Urbano" /\ ajustes_urbano_falla(datos, f.tabla))
           /\ archivos' = IF no_es_None(ret)
                          THEN to_file(archivos, tipo,
                                       IF tipo = "Urbano" THEN ajustes_urbano(datos)
                                       ELSE ajustes_rural(datos))
                          ELSE archivos
           /\ retorno' = [retorno EXCEPT ![tipo] = ret]
           /\ pc' = sig
           /\ salida' = salida

\* u = procesar_geo(PATH_SHP_URB, PATH_CSV_URB, 'Urbano', ...) and the
\* urban block.
ProcesarUrbano ==
    /\ pc = "urbano"
    /\ Bloque("Urbano", "rural")
    /\ UNCHANGED <<df, shp, final, denue, rios, dem, entrada, gen, corridas, fuentes, colores>>

\* r = procesar_geo(PATH_SHP_RUR, PATH_CSV_RUR, 'Rural', ...) and the
\* rural block.
ProcesarRural ==
    /\ pc = "rural"
    /\ Bloque("Rural", "final")
    /\ UNCHANGED <<df, shp, final, denue, rios, dem, entrada, gen, corridas, fuentes, colores>>

\* The closing message; the script ends with status 0.
Terminar ==
    /\ pc = "final"
    /\ pc' = "fin"
    /\ salida' = <<0>>
    /\ UNCHANGED <<df, shp, final, denue, rios, dem, entrada, gen, corridas,
                   fuentes, archivos, retorno, colores>>

Next == ProcesarUrbano \/ ProcesarRural \/ Terminar

Spec == Init /\ [][Next]_vars

\* ------------------------------- topography and restrictions in sequence
\* The layers drawn for the two modules run one after the other: no
\* economic layer or one fuel station beside the first zone, no river
\* layer or one river along the second and third zones.
DenuesModulos ==
    { [status |-> "absent", has_codigo_act |-> TRUE, points |-> <<>>],
      [status |-> "ok", has_codigo_act |-> TRUE,
       points |-> << [first |-> <<1>>, codigo_act |-> <<4, 6, 4>>, x |-> 5] >>] }

RiosModulos ==
    { [status |-> "absent", lines |-> <<>>],
      [status |-> "ok", lines |-> << <<35, 65>> >>] }

InitModulos ==
    /\ pc = "start"
    /\ df = <<>>
    /\ shp = <<>>
    /\ final \in {t \in ZoneTables : Len(t) >= 1}
    /\ denue \in DenuesModulos
    /\ rios \in RiosModulos
    /\ dem \in Rasters(Len(final))
    /\ entrada = "unused"
    /\ gen = "unused"
    /\ corridas = <<>>
    /\ fuentes = "unused"
    /\ archivos = "unused"
    /\ retorno = "unused"
    /\ salida = <<>>
    /\ colores = <<>>

\* final = procesar_topografia(final, PATH_DEM), as procesar_geo calls it.
ModuloIngenieria ==
    /\ pc = "start"
    /\ final' = procesar_topografia(final, dem)
    /\ pc' = "topo"
    /\ UNCHANGED <<df, shp, denue, rios, dem, entrada, gen, corridas, fuentes, archivos, retorno, salida, colores>>

\* final = procesar_restricciones(final, PATH_DENUE, PATH_RIOS), on the
\* table the topography module returned.
ModuloNormativa ==
    /\ pc = "topo"
    /\ final' = procesar_restricciones(final, denue, rios)
    /\ pc' = "done"
    /\ UNCHANGED <<df, shp, denue, rios, dem, entrada, gen, corridas, fuentes, archivos, retorno, salida, colores>>

NextModulos == ModuloIngenieria \/ ModuloNormativa

SpecModulos == InitModulos /\ [][NextModulos]_vars

\* ------------------------------------------------- the script, run again
\* The required sources a run of the script may find for a kind when the
\* script is run repeatedly: a missing layer, sources giving two zones, a
\* table without the P_15YMAS column.
FuentesCorrida(tipo) ==
    LET ll == Llamada(tipo)
        t == TablaCompleta(tipo)
        c == CapaCompleta(tipo)
    IN  { [arg |-> [ll EXCEPT !.shp_path = FALSE], capa |-> <<>>, tabla |-> ConNombre(t)],
          [arg |-> ll, capa |-> c, tabla |-> ConNombre(t)],
          [arg |-> ll, capa |-> c, tabla |-> SinColumna(ConNombre(t), "P_15YMAS")] }

\* The first run starts with an empty output directory.
InitRuns ==
    /\ pc = "urbano"
    /\ df = <<>>
    /\ shp = <<>>
    /\ final = <<>>
    /\ \E e \in Entornos : denue = e[1] /\ dem = e[2] /\ rios = e[3]
    /\ entrada = "unused"
    /\ gen = "unused"
    /\ corridas = <<>>
    /\ fuentes \in [Tipos -> FuentesCorrida("Urbano") \cup FuentesCorrida("Rural")]
    /\ \A k \in Tipos : fuentes[k] \in FuentesCorrida(k)
    /\ archivos = [k \in Tipos |-> SinArchivo]
    /\ retorno = [k \in Tipos |-> "pendiente"]
    /\ salida = <<>>
    /\ colores = <<>>

\* The script is started again after it ended, on the sources found then;
\* the output directory is as the earlier run left it.  corridas records
\* the exit status of the runs that ended.
NuevaCorrida ==
    /\ pc = "fin"
    /\ Len(corridas) < MaxCorridas - 1
    /\ pc' = "urbano"
    /\ corridas' = Append(corridas, salida[1])
    /\ salida' = <<>>
    /\ fuentes' \in [Tipos -> FuentesCorrida("Urbano") \cup FuentesCorrida("Rural")]
    /\ \A k \in Tipos : fuentes'[k] \in FuentesCorrida(k)
    /\ archivos' = [k \in Tipos |-> [archivos[k] EXCEPT !.de_esta_corrida = FALSE]]
    /\ retorno' = [k \in Tipos |-> "pendiente"]
    /\ UNCHANGED <<df, shp, final, denue, rios, dem, entrada, gen, colores>>

NextRuns == ProcesarUrbano \/ ProcesarRural \/ Terminar \/ NuevaCorrida

SpecRuns == InitRuns /\ [][NextRuns]_vars

\* ------------------------------------------- the dashboard's verdict map
\* The fill colours of the final-verdict layer.
Rojo == "#b71c1c"
Naranja == "#e65100"
Verde == "#2e7d32"

\* Python's `sub in val` on strings.
Contiene(val, sub) ==
    \E i \in 1..(Len(val) - Len(sub) + 1) : SubSeq(val, i, i + Len(sub) - 1) = sub

\* color_dictamen(props): red when the verdict text holds RIESGO or
\* FEDERAL, else orange when it holds NO URBANIZABLE or DESLAVE, else green.
color_dictamen(props) ==
    LET val == IF "DICTAMEN_VIABILIDAD" \in DOMAIN props
               THEN props["DICTAMEN_VIABILIDAD"] ELSE ""
    IN  IF Contiene(val, "RIESGO") \/ Contiene(val, "FEDERAL") THEN Rojo
        ELSE IF Contiene(val, "NO URBANIZABLE") \/ Contiene(val, "DESLAVE") THEN Naranja
        ELSE Verde

\* The dashboard styles every zone of the dataset the pipeline produced.
PintarDictamen ==
    /\ pc = "done"
    /\ colores' = [i \in 1..Len(final) |-> color_dictamen(final[i])]
    /\ pc' = "mapa"
    /\ UNCHANGED <<df, shp, final, denue, rios, dem, entrada, gen, corridas, fuentes, archivos, retorno, salida>>

InitTablero == InitRestr

NextTablero == Restricciones \/ PintarDictamen

SpecTablero == InitTablero /\ [][NextTablero]_vars

\* ---------------------------------------------------------------- claims
InUnit(p) == RLe(RZero, p) /\ RLe(p, ROne)

\* C1: after procesar_indicadores every deprivation sub-index, SITS_INDEX,
\* the three resilience indices and the three Sendai indices of every row
\* lie in [0,1], whatever the raw census values (zero, negative, very large).
C1_IndicesInUnitInterval ==
    pc = "done" =>
        \A i \in 1..Len(df) : \A c \in IndexCols : InUnit(df[i][c])

\* A processed row with a negative household count and very large raw
\* numerators, whose unclipped housing ratio is negative and whose
\* unclipped education ratio exceeds 1.
C1_Witness ==
    /\ pc = "done"
    /\ \E i \in 1..Len(df) :
          /\ VarSet \subseteq DOMAIN df[i]
          /\ df[i]["TVIVPARHAB"] = -1
          /\ df[i]["VPH_PISOTI"] = VeryLarge
          /\ df[i]["P_15YMAS"] = 1
          /\ df[i]["P15YM_AN"] = VeryLarge
          /\ df[i]["CAR_VIV_20"] = RZero
          /\ df[i]["CAR_EDU_20"] = ROne

\* C2: SITS_INDEX is the unweighted mean of the five clipped deprivation
\* sub-indices: five times SITS_INDEX equals their sum.
C2_CompositeIsMean ==
    pc = "done" =>
        \A i \in 1..Len(df) :
            LET r == df[i]
                total == RAdd(r["CAR_EDU_20"],
                         RAdd(r["CAR_SALUD_20"],
                         RAdd(r["CAR_VIV_20"],
                         RAdd(r["CAR_SERV_20"], r["CAR_POBREZA_20"]))))
            IN  REq(<<5 * r["SITS_INDEX"][1], r["SITS_INDEX"][2]>>, total)

\* A processed row whose sub-indices differ (education clipped down to 1,
\* health clipped up to 0, income proxy strictly inside) and whose
\* composite lies strictly between 0 and 1.
C2_Witness ==
    /\ pc = "done"
    /\ \E i \in 1..Len(df) :
          /\ VarSet \subseteq DOMAIN df[i]
          /\ df[i]["P15YM_AN"] + df[i]["P15YM_SE"] > df[i]["P_15YMAS"]
          /\ df[i]["P_15YMAS"] > 0
          /\ df[i]["CAR_EDU_20"] = ROne
          /\ df[i]["CAR_SALUD_20"] = RZero
          /\ ~InUnit(<<df[i]["POBTOT"] - df[i]["PDER_SS"], 1>>)
          /\ df[i]["CAR_POBREZA_20"] \notin {RZero, ROne}
          /\ df[i]["SITS_INDEX"] \notin {RZero, ROne}

Verdict(z) == z["DICTAMEN_VIABILIDAD"]

\* C3: every zone has exactly one verdict out of the four, chosen by first
\* match: a gas-restricted zone is Chemical-Risk (also when it is water
\* restricted, whatever its slope), a water-restricted zone that is not
\* gas restricted is Federal-Zone, and only unrestricted zones get
\* Landslide-Risk or Feasible.
C3_VerdictPriority ==
    pc = "done" =>
        \A i \in 1..Len(final) :
            LET z == final[i] IN
            /\ Verdict(z) \in {ChemicalRisk, FederalZone, LandslideRisk, Feasible}
            /\ z["RESTRICCION_GAS"] = 1 => Verdict(z) = ChemicalRisk
            /\ (z["RESTRICCION_GAS"] # 1 /\ z["RESTRICCION_AGUA"] = 1)
                  => Verdict(z) = FederalZone
            /\ Verdict(z) \in {LandslideRisk, Feasible}
                  => (z["RESTRICCION_GAS"] = 0 /\ z["RESTRICCION_AGUA"] = 0)

\* A zone with both restrictions and slope 20 that got Chemical-Risk.
C3_Witness ==
    /\ pc = "done"
    /\ \E i \in 1..Len(final) :
          /\ final[i]["RESTRICCION_GAS"] = 1
          /\ final[i]["RESTRICCION_AGUA"] = 1
          /\ "PENDIENTE_PROMEDIO" \in DOMAIN final[i]
          /\ final[i]["PENDIENTE_PROMEDIO"] = <<20, 1>>
          /\ Verdict(final[i]) = ChemicalRisk

\* C4: an unrestricted zone is Landslide-Risk exactly when its slope is
\* strictly greater than 15 and Feasible otherwise (slope 15 is Feasible).
C4_SlopeVerdict ==
    pc = "done" =>
        \A i \in 1..Len(final) :
            LET z == final[i]
                slope == IF "PENDIENTE_PROMEDIO" \in DOMAIN z
                         THEN z["PENDIENTE_PROMEDIO"] ELSE RZero
                steep == slope[1] > 15 * slope[2]
            IN  (z["RESTRICCION_GAS"] = 0 /\ z["RESTRICCION_AGUA"] = 0) =>
                    /\ steep => Verdict(z) = LandslideRisk
                    /\ ~steep => Verdict(z) = Feasible

\* Three unrestricted zones with slopes 20, 3 and exactly 15: the first is
\* Landslide-Risk, the other two Feasible.
C4_Witness ==
    /\ pc = "done"
    /\ \A i \in 1..Len(final) :
          final[i]["RESTRICCION_GAS"] = 0 /\ final[i]["RESTRICCION_AGUA"] = 0
    /\ \E i, j, k \in 1..Len(final) :
          /\ "PENDIENTE_PROMEDIO" \in DOMAIN final[i]
          /\ final[i]["PENDIENTE_PROMEDIO"] = <<20, 1>> /\ Verdict(final[i]) = LandslideRisk
          /\ final[j]["PENDIENTE_PROMEDIO"] = <<3, 1>> /\ Verdict(final[j]) = Feasible
          /\ final[k]["PENDIENTE_PROMEDIO"] = <<15, 1>> /\ Verdict(final[k]) = Feasible

\* The points of a readable economic layer whose activity code
\* (codigo_act) starts with 464 or 473.
HazardPoints(layer) ==
    IF layer.status = "ok" /\ layer.has_codigo_act
    THEN {k \in 1..Len(layer.points) :
            LET c == layer.points[k].codigo_act
            IN  Len(c) >= 3 /\ (<<c[1], c[2], c[3]>> = <<4, 6, 4>>
                                 \/ <<c[1], c[2], c[3]>> = <<4, 7, 3>>)}
    ELSE {}

\* C5: with the economic layer readable, a zone is gas_restricted exactly
\* when it lies within the buffer distance of some hazard point, and
\* every flagged zone has verdict Chemical-Risk.
C5_GasFlag ==
    (pc = "done" /\ denue.status = "ok") =>
        \A i \in 1..Len(final) :
            LET z == final[i]
                near == \E k \in HazardPoints(denue) :
                           /\ denue.points[k].x - RadioGas <= z["geometry"][2]
                           /\ z["geometry"][1] <= denue.points[k].x + RadioGas
            IN  /\ z["RESTRICCION_GAS"] = (IF near THEN 1 ELSE 0)
                /\ z["RESTRICCION_GAS"] = 1 => Verdict(z) = ChemicalRisk

\* One hazard point whose buffer overlaps exactly one of three zones:
\* exactly that zone is flagged and is Chemical-Risk.
C5_Witness ==
    /\ pc = "done"
    /\ denue.status = "ok"
    /\ Cardinality(HazardPoints(denue)) = 1
    /\ Len(final) = 3
    /\ Cardinality({i \in 1..Len(final) : final[i]["RESTRICCION_GAS"] = 1}) = 1
    /\ \A i \in 1..Len(final) :
          final[i]["RESTRICCION_GAS"] = 1 => Verdict(final[i]) = ChemicalRisk

\* C6: with the river layer readable, a zone is water_restricted exactly
\* when it lies within the buffer distance of some river line, whether or
\* not it is gas restricted.
C6_WaterFlag ==
    (pc = "done" /\ rios.status = "ok") =>
        \A i \in 1..Len(final) :
            LET z == final[i]
                near == \E k \in 1..Len(rios.lines) :
                           /\ rios.lines[k][1] - RadioRios <= z["geometry"][2]
                           /\ z["geometry"][1] <= rios.lines[k][2] + RadioRios
            IN  z["RESTRICCION_AGUA"] = (IF near THEN 1 ELSE 0)

\* A zone carrying both flags beside a zone carrying the gas flag only.
C6_Witness ==
    /\ pc = "done"
    /\ rios.status = "ok"
    /\ \E i, j \in 1..Len(final) :
          /\ final[i]["RESTRICCION_GAS"] = 1 /\ final[i]["RESTRICCION_AGUA"] = 1
          /\ final[j]["RESTRICCION_GAS"] = 1 /\ final[j]["RESTRICCION_AGUA"] = 0

\* max(ECO_TOTAL, 1)
Max1(n) == IF n < 1 THEN 1 ELSE n

\* C7: every zone returned by integrar_economia carries
\* IND_VOCACION_TURISTICA = ECO_TURISMO / max(ECO_TOTAL, 1): 0 when
\* ECO_TOTAL is 0, ECO_TURISMO/ECO_TOTAL otherwise, always within [0,1].
C7_TourismRatio ==
    pc = "done" =>
        \A i \in 1..Len(final) :
            LET z == final[i] IN
            /\ {"IND_VOCACION_TURISTICA", "ECO_TURISMO", "ECO_TOTAL"} \subseteq DOMAIN z
            /\ REq(z["IND_VOCACION_TURISTICA"], <<z["ECO_TURISMO"], Max1(z["ECO_TOTAL"])>>)
            /\ z["ECO_TOTAL"] = 0 => z["IND_VOCACION_TURISTICA"] = RZero
            /\ InUnit(z["IND_VOCACION_TURISTICA"])

\* The same statement for the zones that carry the ratio (the no-file
\* path and the path on which reading and joining succeed).
C7_RatioWhereComputed ==
    pc = "done" =>
        \A i \in 1..Len(final) :
            LET z == final[i] IN
            "IND_VOCACION_TURISTICA" \in DOMAIN z =>
                /\ REq(z["IND_VOCACION_TURISTICA"], <<z["ECO_TURISMO"], Max1(z["ECO_TOTAL"])>>)
                /\ z["ECO_TOTAL"] = 0 => z["IND_VOCACION_TURISTICA"] = RZero
                /\ InUnit(z["IND_VOCACION_TURISTICA"])

\* The activity code of a point: codigo_act, or the first column of a
\* layer that has no codigo_act column.
ActivityCode(layer, k) ==
    IF layer.has_codigo_act THEN layer.points[k].codigo_act ELSE layer.points[k].first

\* The sector the claim's table gives a code.
SectorOf(a) ==
    IF Len(a) < 2 THEN "ECO_OTROS"
    ELSE CASE a[1] = 7 /\ a[2] = 2 -> "ECO_TURISMO"
           [] a[1] = 4 /\ a[2] \in {6, 3} -> "ECO_COMERCIO"
           [] a[1] = 3 /\ a[2] \in {1, 2, 3} -> "ECO_INDUSTRIA"
           [] (a[1] = 8 /\ a[2] = 1) \/ (a[1] = 5 /\ a[2] = 4)
                \/ (a[1] = 6 /\ a[2] \in {1, 2}) -> "ECO_SERVICIOS"
           [] OTHER -> "ECO_OTROS"

\* C8: clasificar_scian gives every economic point exactly one sector,
\* fixed by the first two characters of its activity code: 72 Tourism; 46
\* or 43 Commerce; 31, 32 or 33 Industry; 81, 54, 61 or 62 Services;
\* anything else Other.
C8_ScianTable ==
    pc = "done" =>
        \A k \in 1..Len(denue.points) :
            /\ "SECTOR_SCIAN" \in DOMAIN denue.points[k]
            /\ denue.points[k]["SECTOR_SCIAN"] = SectorOf(ActivityCode(denue, k))

\* The point with code 464 classified as Commerce.
C8_Witness ==
    /\ pc = "done"
    /\ \E k \in 1..Len(denue.points) :
          /\ denue.has_codigo_act
          /\ denue.points[k].codigo_act = <<4, 6, 4>>
          /\ denue.points[k]["SECTOR_SCIAN"] = "ECO_COMERCIO"

\* The geocodes of a table.
GeocodesOf(t) == {t[i]["CVEGEO"] : i \in 1..Len(t)}

\* The geocodes of the census table after the geographic filter.
FilteredCensusGeocodes == GeocodesOf(FiltradoGeografico(df, entrada.tipo, entrada.filtro_mun))

\* C9: in procesar_geo the geocodes of the merged output are exactly the
\* geocodes that the polygon layer and the filtered census table share, so
\* an unmatched census row and an unmatched polygon never appear, and the
\* number of output zones is the size of that intersection.
C9_InnerJoin ==
    pc = "done" =>
        /\ GeocodesOf(final) = GeocodesOf(shp) \cap FilteredCensusGeocodes
        /\ Len(final) = Cardinality(GeocodesOf(shp) \cap FilteredCensusGeocodes)

\* A run that dropped a census row without polygon and a polygon without
\* census row and kept a matched zone.
C9_Witness ==
    /\ pc = "done"
    /\ FilteredCensusGeocodes \ GeocodesOf(shp) # {}
    /\ GeocodesOf(shp) \ FilteredCensusGeocodes # {}
    /\ Len(final) >= 1

\* The label the thresholds give a slope: below 5, from 5 to below 15,
\* 15 and above.
LabelOf(v) ==
    IF v[1] < 5 * v[2] THEN Viable
    ELSE IF v[1] < 15 * v[2] THEN Condicionado
    ELSE NoUrbanizable

SyntheticSlopes(zs) ==
    \A i \in 1..Len(zs) :
        /\ zs[i]["PENDIENTE_PROMEDIO"] = UniformeSemilla42(i)
        /\ zs[i]["CLASIFICACION_TOPOGRAFICA"] = LabelOf(UniformeSemilla42(i))

C11_RunsAgree ==
    dem.status \in {"absent", "unreadable"} \/ ~dem.has_rasterio =>
        \A i, j \in 1..Len(corridas) : corridas[i].tabla = corridas[j].tabla

\* Two runs over three zones with an unusable raster that found different
\* generator states, the second one in mid-stream of another seed.
C11_Witness ==
    /\ Len(corridas) = 2
    /\ dem.status = "unreadable"
    /\ Len(final) = 3
    /\ corridas[1].gen0 = [seed |-> 42, pos |-> 0]
    /\ corridas[2].gen0 = [seed |-> 0, pos |-> 2]
    /\ corridas[2].tabla[3]["PENDIENTE_PROMEDIO"] = <<222278, 10000>>

\* The three labels, each fixed by the zone's slope through the thresholds.
ThreeCategories(zs) ==
    \A i \in 1..Len(zs) :
        /\ zs[i]["CLASIFICACION_TOPOGRAFICA"] \in {Viable, Condicionado, NoUrbanizable}
        /\ zs[i]["CLASIFICACION_TOPOGRAFICA"] = LabelOf(zs[i]["PENDIENTE_PROMEDIO"])

\* C12 as stated: after procesar_topografia every zone's label is one of
\* Viable / Conditioned / Non-urbanizable and follows from its slope:
\* Viable below 5, Conditioned from 5 to below 15, Non-urbanizable from 15.
C12_ThreeCategoriesAlways ==
    pc = "done" => ThreeCategories(final)

\* C12 amended: when a raster file is found, every zone's label is one of
\* the three categories and follows from its slope by the thresholds; when
\* no raster file is found, every zone has slope 0 and the fourth label
\* "Plano (Sin Dato)".
C12_ThreeCategoriesWhenRasterFound ==
    /\ (pc = "done" /\ dem.status # "absent") => ThreeCategories(final)
    /\ (pc = "done" /\ dem.status = "absent") =>
          \A i \in 1..Len(final) :
              /\ final[i]["CLASIFICACION_TOPOGRAFICA"] = SinDato
              /\ final[i]["CLASIFICACION_TOPOGRAFICA"]
                    # LabelOf(final[i]["PENDIENTE_PROMEDIO"])

\* Three zones measured on a readable raster at slopes 5, 15 and 3: the
\* two thresholds and a value below them.
C12_Witness ==
    /\ pc = "done"
    /\ dem.status = "ok" /\ dem.has_rasterio
    /\ Len(final) = 3
    /\ final[1]["PENDIENTE_PROMEDIO"] = <<5, 1>>
    /\ final[1]["CLASIFICACION_TOPOGRAFICA"] = Condicionado
    /\ final[2]["PENDIENTE_PROMEDIO"] = <<15, 1>>
    /\ final[2]["CLASIFICACION_TOPOGRAFICA"] = NoUrbanizable
    /\ final[3]["PENDIENTE_PROMEDIO"] = <<3, 1>>
    /\ final[3]["CLASIFICACION_TOPOGRAFICA"] = Viable

\* The value calcular_pendiente_zonal owes polygon i: the scaled dispersion
\* of its samples, 0 when masking it raised or left no valid sample.
OwnValue(raster, i) ==
    IF raster.mask[i].kind = "std" THEN raster.mask[i].val ELSE RZero

\* C13: on a raster that opens, calcular_pendiente_zonal returns one value
\* per zone in zone order, each fixed by what masking that zone's own
\* polygon gave: 0 where masking raised or left no valid sample, and the
\* measured value everywhere else, whatever happened to the other polygons.
C13_MaskFailureIsolated ==
    (pc = "done" /\ dem.status = "ok" /\ dem.has_rasterio) =>
        /\ calcular_pendiente_zonal(final, dem).ok
        /\ Len(calcular_pendiente_zonal(final, dem).vals) = Len(final)
        /\ \A i \in 1..Len(final) :
              /\ calcular_pendiente_zonal(final, dem).vals[i] = OwnValue(dem, i)
              /\ final[i]["CVEGEO"] = "Z" \o ToString(i)
              /\ Len(final) > 0 => final[i]["PENDIENTE_PROMEDIO"] = OwnValue(dem, i)

\* Three zones: masking the first raised, the second measured 20, the
\* third had no valid sample.
C13_Witness ==
    /\ pc = "done"
    /\ dem.status = "ok" /\ dem.has_rasterio
    /\ Len(final) = 3
    /\ dem.mask[1].kind = "raises"
    /\ dem.mask[2] = [kind |-> "std", val |-> <<20, 1>>]
    /\ dem.mask[3].kind = "empty"
    /\ final[1]["PENDIENTE_PROMEDIO"] = RZero
    /\ final[2]["PENDIENTE_PROMEDIO"] = <<20, 1>>
    /\ final[3]["PENDIENTE_PROMEDIO"] = RZero

\* A zone that carries the five economic counts and the tourism ratio,
\* all 0.
AllZeroEconomy(z) ==
    /\ EcoCols \subseteq DOMAIN z
    /\ \A c \in EcoCols \ {"IND_VOCACION_TURISTICA"} : z[c] = 0
    /\ z["IND_VOCACION_TURISTICA"] = RZero

\* C14: with the economic source file missing, integrar_economia ends
\* without error and returns every zone with ECO_TOTAL, ECO_TURISMO,
\* ECO_COMERCIO, ECO_INDUSTRIA, ECO_SERVICIOS and IND_VOCACION_TURISTICA
\* equal to 0.
C14_MissingEconomyZero ==
    denue.status = "absent" =>
        /\ pc \in {"start", "done"}
        /\ pc = "done" => \A i \in 1..Len(final) : AllZeroEconomy(final[i])

\* Three zones processed with no economic file.
C14_Witness ==
    /\ pc = "done"
    /\ denue.status = "absent"
    /\ Len(final) = 3
    /\ AllZeroEconomy(final[1])
    /\ AllZeroEconomy(final[3])

\* C15: when reading the economic layer or the spatial join fails, the
\* error is caught and the result is the all-zero output: every zone
\* carries the economic counts and the tourism ratio, all 0.
C15_ErrorZeroFilled ==
    denue.status = "unreadable" =>
        /\ pc \in {"start", "done"}
        /\ pc = "done" => \A i \in 1..Len(final) : AllZeroEconomy(final[i])

\* Zone z lies within the gas buffer distance of a hazard point of the
\* economic layer.
NearHazard(z) ==
    \E k \in HazardPoints(denue) :
        /\ denue.points[k].x - RadioGas <= z["geometry"][2]
        /\ z["geometry"][1] <= denue.points[k].x + RadioGas

\* Zone z lies within the river buffer distance of a line of a readable
\* river layer.
NearRiver(z) ==
    /\ rios.status = "ok"
    /\ \E k \in 1..Len(rios.lines) :
          /\ rios.lines[k][1] - RadioRios <= z["geometry"][2]
          /\ z["geometry"][1] <= rios.lines[k][2] + RadioRios

\* The gas analysis cannot be carried out: no file, a failed read, or a
\* layer without the activity-code column.
GasAnalysisFails == denue.status # "ok" \/ ~denue.has_codigo_act

\* C16: procesar_restricciones never raises; a missing or unreadable
\* economic layer leaves gas_restricted false on every zone and a missing
\* or unreadable river layer leaves water_restricted false on every zone;
\* the other flag is computed as if nothing had failed, and every zone
\* gets a verdict.
C16_MissingLayerLeavesFlagFalse ==
    /\ pc \in {"start", "done"}
    /\ pc = "done" =>
          \A i \in 1..Len(final) :
              LET z == final[i] IN
              /\ GasAnalysisFails =>
                    /\ z["RESTRICCION_GAS"] = 0
                    /\ z["RESTRICCION_AGUA"] = (IF NearRiver(z) THEN 1 ELSE 0)
              /\ rios.status # "ok" =>
                    /\ z["RESTRICCION_AGUA"] = 0
                    /\ z["RESTRICCION_GAS"] = (IF NearHazard(z) THEN 1 ELSE 0)
              /\ Verdict(z) \in {ChemicalRisk, FederalZone, LandslideRisk, Feasible}

\* An unreadable economic layer beside a readable river layer: no zone is
\* gas restricted, one zone by the river is water restricted and
\* Federal-Zone, another is not.
C16_Witness ==
    /\ pc = "done"
    /\ denue.status = "unreadable"
    /\ rios.status = "ok"
    /\ \A i \in 1..Len(final) : final[i]["RESTRICCION_GAS"] = 0
    /\ \E i, j \in 1..Len(final) :
          /\ final[i]["RESTRICCION_AGUA"] = 1 /\ Verdict(final[i]) = FederalZone
          /\ final[j]["RESTRICCION_AGUA"] = 0

\* A required source of kind k is missing or unreadable.
Falta(k) ==
    ~fuentes[k].arg.shp_path \/ ~fuentes[k].arg.csv_path \/ ~fuentes[k].arg.legible

\* The sources of kind k are found and readable, hold every column the
\* code indexes and share at least one geocode after the filter.
Sana(k) ==
    /\ ~Falta(k)
    /\ procesar_geo_fin(fuentes[k].arg, fuentes[k].capa, fuentes[k].tabla) = "ok"
    /\ GeocodesOf(fuentes[k].capa)
          \cap GeocodesOf(FiltradoGeografico(fuentes[k].tabla, k, fuentes[k].arg.filtro_mun))
          # {}

Otro(k) == IF k = "Urbano" THEN "Rural" ELSE "Urbano"

\* C17: when the layer or the census table of one kind is missing or
\* unreadable, procesar_geo returns no dataset for that kind and the run
\* writes no file for it, while the other kind, its own sources being
\* sound, is processed and its file written in the same run.
C17_FailureOfOneKindIsolated ==
    \A k \in Tipos :
        /\ Falta(k) =>
              /\ retorno[k] \in {"pendiente", "none"}
              /\ ~archivos[k].de_esta_corrida
        /\ (pc = "fin" /\ Falta(k) /\ Sana(Otro(k))) =>
              /\ retorno[k] = "none"
              /\ retorno[Otro(k)] = "dataset"
              /\ archivos[Otro(k)].de_esta_corrida
              /\ Len(archivos[Otro(k)].datos) >= 1

\* A finished run whose urban layer was missing: the urban file is the one
\* an earlier run left, the rural file was written with two zones.
C17_Witness ==
    /\ pc = "fin"
    /\ ~fuentes["Urbano"].arg.shp_path
    /\ retorno["Urbano"] = "none"
    /\ archivos["Urbano"] = ArchivoPrevio
    /\ retorno["Rural"] = "dataset"
    /\ archivos["Rural"].de_esta_corrida
    /\ Len(archivos["Rural"].datos) = 2
    /\ archivos["Rural"].datos[1]["CVE_AGEB"] = "RURAL"

\* C18: a run in which a required source of either kind is missing ends
\* with a non-zero exit status, and a run ends with status 0 only when
\* both kinds were produced.
C18_ExitStatus ==
    pc = "fin" =>
        /\ (\E k \in Tipos : Falta(k)) => salida # <<0>>
        /\ salida = <<0>> => \A k \in Tipos : retorno[k] = "dataset"

\* C19: a census table that lacks any column used by procesar_indicadores,
\* numerator or denominator (POBTOT, TVIVPARHAB, P_15YMAS, PEA), is
\* processed without error.
C19_MissingColumnsNoError ==
    pc # "error"

\* The part of C19 the code keeps: a table that has POBTOT, TVIVPARHAB and
\* P_15YMAS is processed whatever else it lacks, and the unemployment rate
\* in IND_RIESGO_SOCIAL divides by PEA when the table has it and by
\* P_15YMAS otherwise.
C19_OtherColumnsOptional ==
    /\ (pc = "error") => \E i \in 1..Len(df) : ~(RequiredCols \subseteq DOMAIN df[i])
    /\ (pc = "done") =>
          \A i \in 1..Len(df) :
              LET r == df[i]
                  des == IF "PDESOCUP" \in DOMAIN r THEN r["PDESOCUP"] ELSE 0
                  den == IF "PEA" \in DOMAIN r THEN r["PEA"] ELSE r["P_15YMAS"]
                  tasa == IF den < 0 THEN <<-des, -den>> ELSE <<des, den>>
                  suma == RAdd(Frac(tasa[1], tasa[2]),
                               RAdd(r["CAR_VIV_20"], r["CAR_EDU_20"]))
                  tercio == <<suma[1], 3 * suma[2]>>
              IN  r["IND_RIESGO_SOCIAL"] =
                      (IF tercio[1] <= 0 THEN RZero
                       ELSE IF tercio[1] >= tercio[2] THEN ROne
                       ELSE Frac(tercio[1], tercio[2]))

\* The number read from a raw census cell of row r, 0 when the cell is not
\* numeric or the column is absent.
RawNumber(r, c) == IF c \in DOMAIN r /\ r[c].ok THEN r[c].v ELSE 0

\* C20: CAR_SALUD_20 is 1 - insured / total population clipped to [0,1],
\* the total taken as 1 when it is 0.  For non-negative counts: insured
\* equal to a positive total gives 0, no insured gives 1, insured above
\* the total gives 0.
C20_HealthDeprivation ==
    [][(pc = "start" /\ pc' = "done") =>
          \A i \in 1..Len(df) :
              LET pob == RawNumber(df[i], "POBTOT")
                  ins == RawNumber(df[i], "PDER_SS")
                  tot == IF pob = 0 THEN 1 ELSE pob
                  \* 1 - ins / tot as num / den with den > 0
                  num == IF tot > 0 THEN tot - ins ELSE ins - tot
                  den == IF tot > 0 THEN tot ELSE -tot
                  sal == df'[i]["CAR_SALUD_20"]
              IN  /\ num <= 0 => sal = RZero
                  /\ num >= den => sal = ROne
                  /\ (0 < num /\ num < den) => sal[1] * den = num * sal[2]
                  /\ (pob > 0 /\ ins = pob) => sal = RZero
                  /\ (pob >= 0 /\ ins = 0) => sal = ROne
                  /\ (pob >= 0 /\ ins > pob) => sal = RZero]_vars

\* A processed row with total population 2 and 1 insured: health
\* deprivation 1/2.
C20_Witness ==
    /\ pc = "done"
    /\ \E i \in 1..Len(df) :
          /\ "PDER_SS" \in DOMAIN df[i]
          /\ df[i]["POBTOT"] = 2
          /\ df[i]["PDER_SS"] = 1
          /\ df[i]["CAR_SALUD_20"] = <<1, 2>>

\* The raw census row behind output zone z: the row of the census table
\* that passed the geographic filter with the zone's geocode.
CensusRowOf(z) ==
    LET filtrado == FiltradoGeografico(df, entrada.tipo, entrada.filtro_mun)
    IN  filtrado[CHOOSE k \in 1..Len(filtrado) : filtrado[k]["CVEGEO"] = z["CVEGEO"]]

\* The growth factor of a zone kind.
FactorOf(tipo) == IF tipo = "Urbano" THEN <<1048, 1000>> ELSE <<1012, 1000>>

\* C21: for every output zone and each of the nine demographic groups the
\* projected count is the zone's census base count (0 when missing or not
\* numeric) times the growth factor of the zone's kind; a zone with census
\* total population 0 has P25_TOT = 0.
C21_Projection ==
    pc = "done" =>
        \A i \in 1..Len(final) :
            LET raw == CensusRowOf(final[i])
                f == FactorOf(final[i]["TIPO"])
            IN  /\ \A v \in DOMAIN GRUPOS :
                      final[i][GRUPOS[v]] = Frac(RawNumber(raw, v) * f[1], f[2])
                /\ RawNumber(raw, "POBTOT") = 0 => final[i]["P25_TOT"] = RZero

\* What holds of the projection: the eight groups other than the total are
\* base times factor, and so is the total when its base count is not 0;
\* a base total of 0 is projected as 1 times the factor.
C21_ProjectionOfStoredCounts ==
    pc = "done" =>
        \A i \in 1..Len(final) :
            LET raw == CensusRowOf(final[i])
                f == FactorOf(final[i]["TIPO"])
            IN  /\ \A v \in DOMAIN GRUPOS \ {"POBTOT"} :
                      final[i][GRUPOS[v]] = Frac(RawNumber(raw, v) * f[1], f[2])
                /\ RawNumber(raw, "POBTOT") # 0 =>
                      final[i]["P25_TOT"] = Frac(RawNumber(raw, "POBTOT") * f[1], f[2])
                /\ RawNumber(raw, "POBTOT") = 0 => final[i]["P25_TOT"] = Frac(f[1], f[2])

\* Whether zone z lies within distance r of geometry geom.
WithinDistance(z, geom, r) ==
    geom[1] - r <= z["geometry"][2] /\ z["geometry"][1] <= geom[2] + r

\* C22 as stated: the river buffer radius is larger than the hazard buffer
\* radius, so every zone within the hazard radius of a river line is
\* within the river buffer and carries the water flag.
C22_RiverRadiusLarger ==
    (pc = "done" /\ rios.status = "ok") =>
        \A i \in 1..Len(final) :
            (\E k \in 1..Len(rios.lines) : WithinDistance(final[i], rios.lines[k], 10))
                => final[i]["RESTRICCION_AGUA"] = 1

\* C22: the river buffer radius (0.0002 degree) is smaller than the hazard
\* buffer radius (0.001 degree), both in the degrees of the zones' CRS:
\* every zone carrying the water flag lies within the hazard radius of a
\* river line, and every zone farther than 0.0002 degree from all river
\* lines is left unflagged even within the hazard radius.
C22_RiverRadiusSmaller ==
    (pc = "done" /\ rios.status = "ok") =>
        \A i \in 1..Len(final) :
            /\ final[i]["RESTRICCION_AGUA"] = 1 =>
                  \E k \in 1..Len(rios.lines) : WithinDistance(final[i], rios.lines[k], 10)
            /\ (\A k \in 1..Len(rios.lines) : ~WithinDistance(final[i], rios.lines[k], 2))
                  => final[i]["RESTRICCION_AGUA"] = 0

\* A zone within the hazard radius of a river line and outside its river
\* buffer, left without water flag, beside a zone that carries the flag.
C22_Witness ==
    /\ pc = "done"
    /\ rios.status = "ok"
    /\ \E i, j \in 1..Len(final) :
          /\ \E k \in 1..Len(rios.lines) :
                /\ WithinDistance(final[i], rios.lines[k], 10)
                /\ ~WithinDistance(final[i], rios.lines[k], 2)
          /\ final[i]["RESTRICCION_AGUA"] = 0
          /\ final[j]["RESTRICCION_AGUA"] = 1

\* The geocode of a census row of the given kind, and whether the row is
\* one the pipeline is to keep.
ZoneKey(r, tipo) ==
    IF tipo = "Urbano"
    THEN r["ENTIDAD"] \o r["MUN"] \o r["LOC"] \o r["AGEB"] \o r["MZA"]
    ELSE r["ENTIDAD"] \o r["MUN"] \o r["LOC"]

InTarget(r, tipo, mun) ==
    IF tipo = "Urbano"
    THEN r["MUN"] = mun /\ r["MZA"] # "000"
    ELSE r["MUN"] = mun /\ r["LOC"] \notin {"0000", "9998", "9999", "0001"}

\* C23: every output zone belongs to the target municipality (urban: MUN
\* is the filter, MZA is not 000, geocode ENTIDAD+MUN+LOC+AGEB+MZA; rural:
\* MUN is the filter, LOC is none of 0000, 9998, 9999, 0001, geocode
\* ENTIDAD+MUN+LOC), and a census row failing the filter never reaches the
\* output, a polygon with its key existing or not.
C23_OnlyTargetMunicipality ==
    pc = "done" =>
        /\ \A i \in 1..Len(final) :
              /\ final[i]["TIPO"] = entrada.tipo
              /\ InTarget(final[i], entrada.tipo, entrada.filtro_mun)
              /\ final[i]["CVEGEO"] = ZoneKey(final[i], entrada.tipo)
        /\ \A k \in 1..Len(df) :
              ~InTarget(df[k], entrada.tipo, entrada.filtro_mun)
                  => ZoneKey(df[k], entrada.tipo) \notin GeocodesOf(final)

\* A run with an output zone, a census row of another municipality and a
\* census row dropped as a total or head-town row, both with a polygon of
\* their key in the layer.
C23_Witness ==
    /\ pc = "done"
    /\ Len(final) >= 1
    /\ \E k \in 1..Len(df) :
          /\ df[k]["MUN"] # entrada.filtro_mun
          /\ ZoneKey(df[k], entrada.tipo) \in GeocodesOf(shp)
    /\ \E k \in 1..Len(df) :
          /\ df[k]["MUN"] = entrada.filtro_mun
          /\ ~InTarget(df[k], entrada.tipo, entrada.filtro_mun)
          /\ ZoneKey(df[k], entrada.tipo) \in GeocodesOf(shp)

\* The points of the economic layer lying within zone z, and those of
\* them the claim's table puts in sector sec.
PointsWithin(z) ==
    {k \in 1..Len(denue.points) : Within(denue.points[k].x, z["geometry"])}

PointsWithinOfSector(z, sec) ==
    {k \in PointsWithin(z) : SectorOf(ActivityCode(denue, k)) = sec}

\* The count zone z carries in column c, 0 when it has no such column.
CountOf(z, c) == IF c \in DOMAIN z THEN z[c] ELSE 0

FiveSectors == {"ECO_TURISMO", "ECO_COMERCIO", "ECO_INDUSTRIA", "ECO_SERVICIOS", "ECO_OTROS"}

\* The sum of ECO_TOTAL over the zones from row i on.
RECURSIVE SumTotalFrom(_, _)
SumTotalFrom(t, i) ==
    IF i > Len(t) THEN 0 ELSE CountOf(t[i], "ECO_TOTAL") + SumTotalFrom(t, i + 1)

\* The sum of the five sector counts of zone z.
SumSectors(z) ==
    CountOf(z, "ECO_TURISMO") + CountOf(z, "ECO_COMERCIO") + CountOf(z, "ECO_INDUSTRIA")
        + CountOf(z, "ECO_SERVICIOS") + CountOf(z, "ECO_OTROS")

\* No two zones of table t have a common interior point.
ZonesDisjoint(t) ==
    \A i, j \in 1..Len(t) :
        i # j => (t[i]["geometry"][2] <= t[j]["geometry"][1]
                  \/ t[j]["geometry"][2] <= t[i]["geometry"][1])

\* C24 as stated: after the join each economic point is counted in at most
\* one zone, so the sum of ECO_TOTAL over all zones is the number of
\* points lying within some zone, and each zone's ECO_TOTAL is the sum of
\* its five sector counts.
C24_PointCountedInOneZone ==
    (pc = "done" /\ denue.status = "ok") =>
        /\ \A k \in 1..Len(denue.points) :
              Cardinality({i \in 1..Len(final) :
                              k \in PointsWithin(final[i])
                              /\ CountOf(final[i], "ECO_TOTAL") > 0}) <= 1
        /\ SumTotalFrom(final, 1) =
              Cardinality({k \in 1..Len(denue.points) :
                              \E i \in 1..Len(final) : k \in PointsWithin(final[i])})
        /\ \A i \in 1..Len(final) : CountOf(final[i], "ECO_TOTAL") = SumSectors(final[i])

\* C24: after the join each economic point is counted once in every zone
\* it lies within: a zone's count for a sector is the number of points of
\* that sector within it, its ECO_TOTAL is the number of points within it
\* and the sum of its five sector counts, and a point within no zone adds
\* to no count.  When no two zones overlap, each point is counted in at
\* most one zone and the sum of ECO_TOTAL over all zones is the number of
\* points lying within some zone.
C24_PointCountedPerZoneWithin ==
    (pc = "done" /\ denue.status = "ok") =>
        /\ \A i \in 1..Len(final) :
              /\ CountOf(final[i], "ECO_TOTAL") = Cardinality(PointsWithin(final[i]))
              /\ \A sec \in FiveSectors :
                    CountOf(final[i], sec) = Cardinality(PointsWithinOfSector(final[i], sec))
              /\ CountOf(final[i], "ECO_TOTAL") = SumSectors(final[i])
              /\ "ECO_TOTAL" \in DOMAIN final[i]
        /\ ZonesDisjoint(final) =>
              /\ \A k \in 1..Len(denue.points) :
                    Cardinality({i \in 1..Len(final) : k \in PointsWithin(final[i])}) <= 1
              /\ SumTotalFrom(final, 1) =
                    Cardinality({k \in 1..Len(denue.points) :
                                    \E i \in 1..Len(final) : k \in PointsWithin(final[i])})

\* Disjoint zones with one point inside a zone, counted there in the
\* Other sector, and one point on a zone boundary, counted nowhere.
C24_Witness ==
    /\ pc = "done"
    /\ denue.status = "ok"
    /\ ZonesDisjoint(final)
    /\ Len(denue.points) = 2
    /\ SumTotalFrom(final, 1) = 1
    /\ \E i \in 1..Len(final) :
          /\ CountOf(final[i], "ECO_OTROS") = 1
          /\ CountOf(final[i], "ECO_TOTAL") = 1
    /\ \E k \in 1..Len(denue.points) :
          \A i \in 1..Len(final) : k \notin PointsWithin(final[i])

\* Whether the sources the current run found for kind k yield a dataset,
\* and the dataset they yield, as the script exports it.
SourcesYield(k) == procesar_geo_fin(fuentes[k].arg, fuentes[k].capa, fuentes[k].tabla) = "ok"

DatasetOfRun(k) ==
    LET d == procesar_geo(fuentes[k].arg, fuentes[k].capa, fuentes[k].tabla, denue, dem, rios)
    IN  IF k = "Urbano" THEN ajustes_urbano(d) ELSE ajustes_rural(d)

\* C25: after any sequence of runs of the script, every output file that
\* exists holds the dataset computed from the source files of the most
\* recent run, also when a kind that succeeded in an earlier run fails in
\* the latest one: no file of an earlier run is left standing.
C25_FilesHoldLatestRun ==
    pc = "fin" =>
        \A k \in Tipos :
            archivos[k].existe =>
                /\ archivos[k].de_esta_corrida
                /\ SourcesYield(k)
                /\ archivos[k].datos = DatasetOfRun(k)

\* What holds of the files: a file written by the current run holds
\* exactly the dataset computed from the current sources (overwritten,
\* nothing of an earlier content kept).
C25_WrittenFilesOverwritten ==
    \A k \in Tipos :
        archivos[k].de_esta_corrida =>
            (archivos[k].existe /\ SourcesYield(k) /\ archivos[k].datos = DatasetOfRun(k))

\* The outcome the rural sources alone determine at the end of a run: the
\* rural step was taken; sound rural sources gave a dataset, exported as
\* computed from them; missing or unreadable rural sources gave none and
\* no file was written.
RuralDecidedByRuralInputs ==
    /\ retorno["Rural"] # "pendiente"
    /\ Sana("Rural") =>
          /\ retorno["Rural"] = "dataset"
          /\ archivos["Rural"].existe /\ archivos["Rural"].de_esta_corrida
          /\ archivos["Rural"].datos = DatasetOfRun("Rural")
    /\ Falta("Rural") =>
          /\ retorno["Rural"] = "none"
          /\ ~archivos["Rural"].de_esta_corrida

\* C26: whatever the outcome of the urban kind that runs first (missing
\* files, read failure, missing census columns, an inner join without
\* urban zones), the rural step is reached and gives the result the rural
\* inputs determine.
C26_RuralIndependentOfUrban ==
    pc = "fin" => RuralDecidedByRuralInputs

\* What holds: when the urban sources are missing or unreadable, or are
\* sound and give at least one zone, the rural step is reached and gives
\* the result the rural inputs determine.
C26_RuralAfterUrbanReturns ==
    (pc = "fin" /\ (Falta("Urbano") \/ Sana("Urbano"))) => RuralDecidedByRuralInputs

\* C27: in every output zone the slope classification and the verdict
\* agree: a zone with neither gas nor water restriction has the verdict
\* Landslide-Risk exactly when its slope classification is
\* Non-urbanizable, for every slope value, 15 included.
C27_ClassAndVerdictAgree ==
    pc = "done" =>
        \A i \in 1..Len(final) :
            (final[i]["RESTRICCION_GAS"] = 0 /\ final[i]["RESTRICCION_AGUA"] = 0) =>
                (Verdict(final[i]) = LandslideRisk
                    <=> final[i]["CLASIFICACION_TOPOGRAFICA"] = NoUrbanizable)

\* What holds: the two agree at every slope other than 15; at a slope of
\* exactly 15 the classification is Non-urbanizable and the verdict of an
\* unrestricted zone is Feasible.
C27_AgreeExceptAtFifteen ==
    pc = "done" =>
        \A i \in 1..Len(final) :
            (final[i]["RESTRICCION_GAS"] = 0 /\ final[i]["RESTRICCION_AGUA"] = 0) =>
                IF final[i]["PENDIENTE_PROMEDIO"] = <<15, 1>>
                THEN /\ final[i]["CLASIFICACION_TOPOGRAFICA"] = NoUrbanizable
                     /\ Verdict(final[i]) = Feasible
                ELSE (Verdict(final[i]) = LandslideRisk
                         <=> final[i]["CLASIFICACION_TOPOGRAFICA"] = NoUrbanizable)

\* The polygons of the layer that have a census row after the filter, in
\* layer order: the rows of the inner join.
InnerJoinRows == SelectSeq(shp, LAMBDA p : p["CVEGEO"] \in FilteredCensusGeocodes)

\* C28: the stages that run after the inner join (integrar_economia,
\* procesar_topografia, procesar_restricciones), on their success and on
\* their error paths, neither add, drop, duplicate nor reorder zones: the
\* dataset procesar_geo returns has one row per inner-join row, with the
\* same geocode and geometry in the same position.
C28_StagesPreserveRows ==
    pc = "done" =>
        /\ Len(final) = Len(InnerJoinRows)
        /\ \A i \in 1..Len(final) :
              /\ final[i]["CVEGEO"] = InnerJoinRows[i]["CVEGEO"]
              /\ final[i]["geometry"] = InnerJoinRows[i]["geometry"]

\* A returned dataset of two zones with the economic layer read, one zone
\* holding a point and one holding none, both with slope and verdict.
C28_Witness ==
    /\ pc = "done"
    /\ denue.status = "ok"
    /\ Len(final) = 2
    /\ CountOf(final[1], "ECO_TOTAL") = 1
    /\ "ECO_TOTAL" \in DOMAIN final[2] /\ final[2]["ECO_TOTAL"] = 0
    /\ \A i \in 1..2 : {"PENDIENTE_PROMEDIO", "DICTAMEN_VIABILIDAD"} \subseteq DOMAIN final[i]

\* A returned dataset of two zones on the error paths: the economic layer,
\* the raster and the river layer found and unreadable.
C28_WitnessErrorPaths ==
    /\ pc = "done"
    /\ denue.status = "unreadable" /\ dem.status = "unreadable" /\ rios.status = "unreadable"
    /\ Len(final) = 2
    /\ "ECO_TOTAL" \notin DOMAIN final[1]

\* C29: the raw census counts carried into the output dataset are the
\* values read from the census table, non-numeric taken as 0: replacing a
\* 0 denominator by 1 affects the index computation only, so a zone whose
\* census POBTOT (or PEA, TVIVPARHAB, P_15YMAS) is 0 has that field, and
\* P20_TOT, equal to 0 in the output.
C29_RawCountsKept ==
    pc = "done" =>
        \A i \in 1..Len(final) :
            LET raw == CensusRowOf(final[i]) IN
            /\ \A c \in VarSet \cap DOMAIN raw : final[i][c] = RawNumber(raw, c)
            /\ final[i]["P20_TOT"] = RawNumber(raw, "POBTOT")

\* What holds: every census count that is not one of the four
\* denominators is carried as read; a denominator is carried as read
\* unless it is 0 (or not numeric), in which case the output holds 1; and
\* P20_TOT is the POBTOT field of the output.
C29_RawCountsExceptZeroDenominators ==
    pc = "done" =>
        \A i \in 1..Len(final) :
            LET raw == CensusRowOf(final[i]) IN
            /\ \A c \in (VarSet \cap DOMAIN raw) \ {"POBTOT", "TVIVPARHAB", "P_15YMAS", "PEA"} :
                  final[i][c] = RawNumber(raw, c)
            /\ \A c \in {"POBTOT", "TVIVPARHAB", "P_15YMAS", "PEA"} \cap DOMAIN raw :
                  final[i][c] = (IF RawNumber(raw, c) = 0 THEN 1 ELSE RawNumber(raw, c))
            /\ final[i]["P20_TOT"] = final[i]["POBTOT"]

\* The colour the legend of the final-verdict layer assigns a verdict:
\* green can build, orange difficult terrain, red prohibited.
LegendColour(v) ==
    CASE v = Feasible -> "#2e7d32"
      [] v = LandslideRisk -> "#e65100"
      [] v \in {ChemicalRisk, FederalZone} -> "#b71c1c"

\* C30: in the final-verdict layer color_dictamen gives every verdict the
\* pipeline can emit the colour the legend assigns to it: Feasible green,
\* Landslide-Risk orange, Chemical-Risk and Federal-Zone red.
C30_VerdictColours ==
    pc = "mapa" =>
        \A i \in 1..Len(final) : colores[i] = LegendColour(Verdict(final[i]))

\* What holds: Feasible is drawn green, Chemical-Risk and Federal-Zone
\* red, and Landslide-Risk red as well; no verdict of the pipeline is
\* drawn orange.
C30_LandslideDrawnRed ==
    pc = "mapa" =>
        \A i \in 1..Len(final) :
            /\ Verdict(final[i]) \in {Feasible, LandslideRisk, ChemicalRisk, FederalZone}
            /\ colores[i] = (IF Verdict(final[i]) = Feasible THEN "#2e7d32" ELSE "#b71c1c")

====
